---- MODULE Spec2Model ----
(***************************************************************************)
(* Model of the finance-data readers:                                      *)
(*   sec.py       SECFiling / Filing13D / Filing13G  (filing parser)       *)
(*   yahoo.py     YahooReader                        (market-data client)  *)
(*   tipranks.py  TipranksReader                     (analyst-data client) *)
(*                                                                         *)
(* Text and JSON are modelled structurally.  A filing header is the        *)
(* sequence of its marker-introduced blocks ("units"); a text offset is    *)
(* the 0-based position of a unit, so str.find, slicing and str.split act  *)
(* on unit positions exactly as they act on character offsets.  A string   *)
(* is a sequence (<<>> is the empty string), a Python dict is a function   *)
(* on the set of its keys, and an optional value is a sequence of length   *)
(* at most one (None is <<>>).                                             *)
(***************************************************************************)
EXTENDS Integers, Sequences, FiniteSets, TLC

VARIABLES
    \* ---- sec.py: one filing object under construction / constructed ----
    secPc,                 \* "new" | "done" | "raised"
    secCls,                \* class being constructed
    secFile,               \* the constructor argument (file text, structured)
    secErr,                \* exception type raised by the constructor, or "none"
    filer,                 \* self._filer
    subject,               \* self._subject
    subject_information,   \* self._subject_information (unit offsets of the slice)
    filer_information,     \* self._filer_information   (list of items, each a list of unit offsets)
    filing_date,           \* self._filing_date (None while unset)
    percent_acquired,      \* self._percent_acquired (None while the attribute is unset)
    shares_acquired,       \* self._shares_acquired (None while the attribute is unset)
    secParses,             \* calls of _parse_percent_acquired / _parse_shares_acquired so far
    secLast,               \* the last property access: name and outcome
    secCalls,              \* number of property accesses made
    \* ---- yahoo.py: one YahooReader ----
    yPc,                   \* "new" | "done" | "raised"
    ticker,                \* self._ticker (None while unset)
    stored_data,           \* self._stored_data (None while the attribute is unset)
    fetched,               \* the payload the quoteSummary request returned (None before)
    isin_cache,            \* self._isin (None while the attribute is unset)
    yReq,                  \* requests issued so far to the lookup and quoteSummary endpoints
    yLast,                 \* the last call (constructor or accessor): name, arguments,
                           \* outcome, value, number of requests it issued
    yCalls,                \* number of accessor calls made
    \* ---- tipranks.py: one TipranksReader ----
    tPc,                   \* "new" | "done"
    ratings_data,          \* self._ratings_data (None while the attribute is unset)
    tReq,                  \* getData requests issued so far
    tLast,                 \* the last call, as yLast
    tCalls,                \* number of accessor calls made
    \* ---- yahoo.py: the last historical_data call on a chart response ----
    hist                   \* its arguments, the chart response and the outcome

secVars == <<secPc, secCls, secFile, secErr, filer, subject,
             subject_information, filer_information, filing_date,
             percent_acquired, shares_acquired, secParses, secLast, secCalls>>

yVars == <<yPc, ticker, stored_data, fetched, isin_cache, yReq, yLast, yCalls>>

tVars == <<tPc, ratings_data, tReq, tLast, tCalls>>

hVars == <<hist>>

vars == <<secPc, secCls, secFile, secErr, filer, subject,
          subject_information, filer_information, filing_date,
          percent_acquired, shares_acquired, secParses, secLast, secCalls,
          yPc, ticker, stored_data, fetched, isin_cache, yReq, yLast, yCalls,
          tPc, ratings_data, tReq, tLast, tCalls,
          hist>>

\* A behaviour uses one of the two reader classes.
YahooUnused == yPc = "new" /\ yCalls = 0

TipranksUnused == tPc = "new" /\ tCalls = 0

----------------------------------------------------------------------------
(* Generic helpers *)

None == <<>>
Some(x) == <<x>>

\* Python's slice index normalisation for a sequence of length L.
PyIndex(i, L) ==
    IF i < 0 THEN (IF i + L < 0 THEN 0 ELSE i + L)
    ELSE IF i > L THEN L ELSE i

\* s[a:b] over a sequence of length L, as the sequence of the 0-based
\* offsets it selects.
PySlice(L, a, b) ==
    LET lo == PyIndex(a, L)
        hi == PyIndex(b, L)
    IN [j \in 1..(IF hi > lo THEN hi - lo ELSE 0) |-> lo + j - 1]

----------------------------------------------------------------------------
(* sec.py *)

MaxUnits == 3

\* Accessor calls made on one object.
MaxCalls == 2

FILER == "FILER:"
FILED_BY == "FILED BY:"
SUBJECT_COMPANY == "SUBJECT COMPANY:"

Markers == {FILER, FILED_BY, SUBJECT_COMPANY}

\* The text that follows a marker up to the next marker (or the end of the
\* header): which labelled lines it holds.  "empty" is the zero-length text.
Bodies == {
    [txt |-> TRUE,  name |-> TRUE,  cik |-> TRUE,  sic |-> TRUE ],
    [txt |-> TRUE,  name |-> TRUE,  cik |-> TRUE,  sic |-> FALSE],
    [txt |-> TRUE,  name |-> FALSE, cik |-> TRUE,  sic |-> TRUE ],
    [txt |-> TRUE,  name |-> TRUE,  cik |-> FALSE, sic |-> TRUE ],
    [txt |-> FALSE, name |-> FALSE, cik |-> FALSE, sic |-> FALSE] }

Units == [marker : Markers, body : Bodies]

Headers == UNION { [1..n -> Units] : n \in 0..MaxUnits }

\* The labelled lines of the file outside the party sections.
MetaLines == {"FORM TYPE:", "FILED AS OF DATE:"}

\* Text is a sequence of characters.
Digits == {"0", "1", "2", "3", "4", "5", "6", "7", "8", "9"}

DigitVal(c) ==
    CASE c = "0" -> 0 [] c = "1" -> 1 [] c = "2" -> 2 [] c = "3" -> 3
      [] c = "4" -> 4 [] c = "5" -> 5 [] c = "6" -> 6 [] c = "7" -> 7
      [] c = "8" -> 8 [] c = "9" -> 9

DigitChar(n) ==
    CASE n = 0 -> "0" [] n = 1 -> "1" [] n = 2 -> "2" [] n = 3 -> "3"
      [] n = 4 -> "4" [] n = 5 -> "5" [] n = 6 -> "6" [] n = 7 -> "7"
      [] n = 8 -> "8" [] n = 9 -> "9"

\* int(s) for a text of decimal digits (the empty text raises ValueError,
\* which the callers test before calling).
RECURSIVE ToInt(_)
ToInt(s) ==
    IF Len(s) = 0 THEN 0
    ELSE 10 * ToInt(SubSeq(s, 1, Len(s) - 1)) + DigitVal(s[Len(s)])

\* s.replace(c, "")
Without(s, c) == SelectSeq(s, LAMBDA x : x # c)

\* s.strip() for the blank character
RECURSIVE Strip(_)
Strip(s) ==
    IF Len(s) > 0 /\ s[1] = " " THEN Strip(Tail(s))
    ELSE IF Len(s) > 0 /\ s[Len(s)] = " " THEN Strip(SubSeq(s, 1, Len(s) - 1))
    ELSE s

\* The digits that follow the FILED AS OF DATE label: the greedy match of
\* ([0-9]+), which ends at the first character that is not a digit.
DateTokens == {
    <<"2", "0", "2", "4", "0", "1", "0", "1">>,
    <<"2", "0", "2", "4", "0", "2", "2", "9">>,
    <<"2", "0", "2", "3", "0", "2", "2", "9">>,
    <<"2", "0", "2", "4", "0", "1", "0", "1", "1">>,
    <<"2", "0", "2", "4", "0", "1", "1">>,
    <<"2", "0", "2", "4">>,
    <<"2", "0", "2", "4", "0", "1", "2", "1", "4", "7", "4", "8", "3", "6", "4", "8">> }

PlainDate == <<"2", "0", "2", "4", "0", "1", "0", "1">>

\* The matches of the CUSIP pattern
\* [0-9A-Z]{4}[0-9A-Za-z]{2}[- ]*[0-9]{2}[- ]*[0-9] as they stand in the
\* flattened document.
RawCusips == {
    <<"1", "2", "3", "4", "A", "B", "1", "0", "9">>,
    <<"1", "2", "3", "4", "A", "B", "-", "1", "0", "-", "9">>,
    <<"9", "9", "9", "9", "Z", "Z", " ", "9", "9", " ", "-", "9">> }

\* The maximal runs of [0-9.,] in the flattened document.
PercentTokens == {
    <<"3", "7", ".", "5">>,
    <<"5">>,
    <<"1", ",", "2", "3", "4", ".", "5">>,
    <<"1", ".", "2", ".", "3">> }

\* The maximal runs of [0-9,] in the flattened document.
SharesTokens == {
    <<"5", "0", "0">>,
    <<"1", ",", "0", "0", "0">>,
    <<"1", ",", "2", "3", "4", ",", "5", "6", "7">> }

\* Number of pattern matches or numeric tokens in one part of a document.
MaxMatches == 2

SeqsUpTo(S, n) == UNION { [1..k -> S] : k \in 0..n }

\* A numeric run that follows the percent phrase, and whether "%" follows it
\* (after at most one blank).
PercentItems == [tok : PercentTokens, pct : BOOLEAN]

PlainCusips == << <<"1", "2", "3", "4", "A", "B", "1", "0", "9">> >>

PlainPercent == Some(<< [tok |-> <<"3", "7", ".", "5">>, pct |-> TRUE] >>)

PlainShares == Some(<< <<"1", ",", "0", "0", "0">> >>)

\* The document part of a file:
\*   cusips   the CUSIP pattern's matches, in document order;
\*   percent  None when the percent-of-class phrase is absent, else the
\*            numeric runs that follow its first occurrence;
\*   shares   None when the aggregate-amount phrase is absent, else the
\*            numeric runs that follow its first occurrence.
\* One part varies at a time.
Documents ==
    [cusips : SeqsUpTo(RawCusips, MaxMatches),
     percent : {PlainPercent}, shares : {PlainShares}]
    \cup
    [cusips : {PlainCusips},
     percent : {None} \cup {Some(q) : q \in SeqsUpTo(PercentItems, MaxMatches)},
     shares : {PlainShares}]
    \cup
    [cusips : {PlainCusips},
     percent : {PlainPercent},
     shares : {None} \cup {Some(q) : q \in SeqsUpTo(SharesTokens, MaxMatches)}]

PlainDocument == [cusips |-> PlainCusips, percent |-> PlainPercent, shares |-> PlainShares]

\* A header with one subject block followed by one filed-by block.
PlainHeader ==
    << [marker |-> SUBJECT_COMPANY,
        body |-> [txt |-> TRUE, name |-> TRUE, cik |-> TRUE, sic |-> TRUE]],
       [marker |-> FILED_BY,
        body |-> [txt |-> TRUE, name |-> TRUE, cik |-> TRUE, sic |-> TRUE]] >>

\* Files whose header and labelled lines vary.
HeaderFiles ==
    [header : Headers, meta : SUBSET MetaLines, date : {PlainDate},
     document : {PlainDocument}]

\* Files whose date token or document varies.
DocumentFiles ==
    [header : {PlainHeader}, meta : {MetaLines}, date : DateTokens,
     document : {PlainDocument}]
    \cup
    [header : {PlainHeader}, meta : {MetaLines}, date : {PlainDate},
     document : Documents]

Files == HeaderFiles \cup DocumentFiles

\* header.find(marker): offset of the first occurrence, -1 when absent.
Find(h, m) ==
    IF \E i \in 1..Len(h) : h[i].marker = m
    THEN (CHOOSE i \in 1..Len(h) :
             /\ h[i].marker = m
             /\ \A j \in 1..(i-1) : h[j].marker # m) - 1
    ELSE -1

\* section.split(marker)[1:], the section given as unit offsets: one item per
\* occurrence of the marker, running up to the next occurrence.
SplitTail(h, sec, m) ==
    LET starts == {p \in 1..Len(sec) : h[sec[p] + 1].marker = m}
        nth(k) == CHOOSE p \in starts : Cardinality({q \in starts : q < p}) = k - 1
        stop(p) == IF \E q \in starts : q > p
                   THEN (CHOOSE q \in starts : q > p /\ \A r \in starts : r > p => q <= r) - 1
                   ELSE Len(sec)
    IN [k \in 1..Cardinality(starts) |-> SubSeq(sec, nth(k), stop(nth(k)))]

\* SECFiling._split_header
split_header(h) ==
    LET L == Len(h)
        f0 == Find(h, FILER)
        filer_section_start == IF f0 = -1 THEN Find(h, FILED_BY) ELSE f0
        subject_section_start == Find(h, SUBJECT_COMPANY)
        after == subject_section_start > filer_section_start
        subject_section == IF after
                           THEN PySlice(L, subject_section_start, L)
                           ELSE PySlice(L, subject_section_start, filer_section_start)
        filer_section == IF after
                         THEN PySlice(L, filer_section_start, subject_section_start)
                         ELSE PySlice(L, filer_section_start, L)
        m == IF f0 = -1 THEN FILED_BY ELSE FILER
    IN <<subject_section, SplitTail(h, filer_section, m)>>

\* len(item) == 0 for an item of the filer section: the marker was stripped by
\* split, so the item is empty iff it is one unit with an empty body.
ItemEmpty(h, item) == Len(item) = 1 /\ ~h[item[1] + 1].body.txt

\* len(section) == 0 for a slice of the header (markers included).
SectionEmpty(sec) == Len(sec) = 0

\* re.findall(label, section): the offsets of the units of the section whose
\* text holds the labelled line, in text order.
FindAll(h, sec, field) ==
    SelectSeq(sec, LAMBDA o : h[o + 1].body[field])

\* SECFiling._parse_name: the name (a string naming the unit it was read
\* from), or IndexError.
parse_name(h, sec) ==
    LET ms == FindAll(h, sec, "name")
    IN IF Len(ms) = 0 THEN [err |-> "IndexError"]
       ELSE [err |-> "none", val |-> <<ms[1]>>]

\* SECFiling._parse_cik: the integer key of the unit it was read from.
parse_cik(h, sec) ==
    LET ms == FindAll(h, sec, "cik")
    IN IF Len(ms) = 0 THEN [err |-> "IndexError"]
       ELSE [err |-> "none", val |-> ms[1]]

\* SECFiling._parse_sic
parse_sic(h, sec) ==
    LET ms == FindAll(h, sec, "sic")
    IN IF Len(ms) = 0 THEN [err |-> "IndexError"]
       ELSE [err |-> "none", val |-> <<Some(<<ms[1]>>), Some(ms[1])>>]

\* The assignment with an except clause that stores the exception's name
\* in place of None.
sic_or_error(h, sec) ==
    LET r == parse_sic(h, sec)
    IN IF r.err = "none" THEN r.val ELSE <<Some("IndexError"), Some("IndexError")>>

\* try: ... = self._parse_sic(item)  except: ... = None, None
sic_or_none(h, sec) ==
    LET r == parse_sic(h, sec)
    IN IF r.err = "none" THEN r.val ELSE <<None, None>>

\* One pass of the loop body of SECFiling.__init__ for a non-empty item.
filer_record(h, item) ==
    [name |-> parse_name(h, item).val,
     cik |-> parse_cik(h, item).val,
     sic_name |-> sic_or_none(h, item)[1],
     sic_code |-> sic_or_none(h, item)[2]]

\* s[a:b] for a text s.
TextSlice(s, a, b) ==
    LET offs == PySlice(Len(s), a, b)
    IN [j \in 1..Len(offs) |-> s[offs[j] + 1]]

IsLeap(y) == (y % 4 = 0 /\ y % 100 # 0) \/ y % 400 = 0

DaysInMonth(y, m) ==
    CASE m \in {1, 3, 5, 7, 8, 10, 12} -> 31
      [] m \in {4, 6, 9, 11} -> 30
      [] OTHER -> IF IsLeap(y) THEN 29 ELSE 28

\* The decimal text of n, zero-padded to width w.
RECURSIVE Pad(_, _)
Pad(n, w) ==
    IF w = 0 THEN <<>> ELSE Pad(n \div 10, w - 1) \o <<DigitChar(n % 10)>>

\* datetime.date(year, month, day).isoformat()
isoformat(year, month, day) ==
    Pad(year, 4) \o <<"-">> \o Pad(month, 2) \o <<"-">> \o Pad(day, 2)

\* SECFiling._parse_filing_date: findall(...)[0] raises IndexError without a
\* match; int("") and int of a text of more than 4300 digits raise
\* ValueError; datetime.date raises OverflowError for a day that does not fit
\* a C int (2147483647), before it looks at the year and the month, and
\* ValueError for a date that does not exist.
parse_filing_date(file) ==
    IF "FILED AS OF DATE:" \notin file.meta \/ Len(file.date) = 0
    THEN [err |-> "IndexError"]
    ELSE LET date == file.date
             ys == TextSlice(date, 0, 4)
             ms == TextSlice(date, 4, 6)
             ds == TextSlice(date, 6, Len(date))
             nonzero == {i \in 1..Len(ds) : ds[i] # "0"}
             sig == IF nonzero = {} THEN <<>>
                    ELSE SubSeq(ds, CHOOSE i \in nonzero : \A j \in nonzero : i <= j, Len(ds))
             hi == ToInt(SubSeq(sig, 1, 5))
             lo == ToInt(SubSeq(sig, 6, 10))
         IN IF Len(ys) = 0 \/ Len(ms) = 0 \/ Len(ds) = 0 \/ Len(ds) > 4300
            THEN [err |-> "ValueError"]
            ELSE IF \/ Len(sig) > 10
                    \/ Len(sig) = 10 /\ (hi > 21474 \/ (hi = 21474 /\ lo > 83647))
            THEN [err |-> "OverflowError"]
            ELSE LET year == ToInt(ys)
                     month == ToInt(ms)
                     day == ToInt(ds)
                 IN IF \/ year < 1 \/ year > 9999
                       \/ month < 1 \/ month > 12
                       \/ day < 1 \/ day > DaysInMonth(year, month)
                    THEN [err |-> "ValueError"]
                    ELSE [err |-> "none", val |-> isoformat(year, month, day)]

\* SECFiling.__init__ : the first exception raised, "none" when it completes.
sec_init_error(file) ==
    LET h == file.header
        items == SelectSeq(split_header(h)[2], LAMBDA it : ~ItemEmpty(h, it))
    IN IF \E k \in 1..Len(items) :
            parse_name(h, items[k]).err # "none" \/ parse_cik(h, items[k]).err # "none"
       THEN "IndexError"
       ELSE IF "FORM TYPE:" \notin file.meta THEN "IndexError"
       ELSE parse_filing_date(file).err

\* self._filer after the loop of SECFiling.__init__
sec_init_filer(file) ==
    LET h == file.header
        items == SelectSeq(split_header(h)[2], LAMBDA it : ~ItemEmpty(h, it))
    IN [k \in 1..Len(items) |-> filer_record(h, items[k])]

\* item.strip().replace(" ", "").replace("-", "")
clean_cusip(item) == Without(Without(Strip(item), " "), "-")

\* The last element of greatest length.
max_by_len_last(list) ==
    list[CHOOSE i \in 1..Len(list) :
            /\ \A j \in 1..Len(list) : Len(list[j]) <= Len(list[i])
            /\ \A j \in (i + 1)..Len(list) : Len(list[j]) < Len(list[i])]

\* max(list, key=len): the first element of greatest length.
max_by_len(list) ==
    list[CHOOSE i \in 1..Len(list) :
            /\ \A j \in 1..Len(list) : Len(list[j]) <= Len(list[i])
            /\ \A j \in 1..(i - 1) : Len(list[j]) < Len(list[i])]

\* _parse_cusip without the clean-up of the matches.
parse_cusip_raw(file) ==
    LET cusips == file.document.cusips
    IN IF Len(cusips) = 0 THEN [err |-> "ValueError"]
       ELSE [err |-> "none", val |-> max_by_len(cusips)]

\* Filing13D._parse_cusip: max() of an empty list raises ValueError.
parse_cusip(file) ==
    LET found == file.document.cusips
        cusips == [k \in 1..Len(found) |-> clean_cusip(found[k])]
    IN IF Len(cusips) = 0 THEN [err |-> "ValueError"]
       ELSE [err |-> "none", val |-> max_by_len(cusips)]

Count1(s, c) == Len(SelectSeq(s, LAMBDA x : x = c))

\* float(tok) accepts digits with at most one decimal point and at least one
\* digit; anything else over [0-9.,] raises ValueError.
is_float(tok) ==
    /\ Count1(tok, ",") = 0
    /\ Count1(tok, ".") <= 1
    /\ \E k \in 1..Len(tok) : tok[k] \in Digits

RECURSIVE Pow10(_)
Pow10(n) == IF n = 0 THEN 1 ELSE 10 * Pow10(n - 1)

\* r * 2^n modulo m for r < m < 2^23, eight doublings at a time (every
\* intermediate value below 2^31).
RECURSIVE ShiftMod(_, _, _)
ShiftMod(r, n, m) ==
    IF n < 8 THEN (r * 2 ^ n) % m ELSE ShiftMod((r * 256) % m, n - 8, m)

\* The exponent of the double nearest to a / m, for a > 0: the e with
\* 2^e <= a / m < 2^(e + 1).
RECURSIVE binary_exponent(_, _)
binary_exponent(a, m) ==
    IF a >= m
    THEN (IF a \div 2 >= m THEN 1 + binary_exponent(a \div 2, m) ELSE 0)
    ELSE binary_exponent(2 * a, m) - 1

\* Whether a / 10^7 divided by 100 has an exponent 7 below that of a / 10^7
\* (its fraction is below 100 / 64) rather than 6.
small_fraction(a, e) ==
    IF e >= 0 THEN a < 15625000 * 2 ^ e ELSE a * 2 ^ (-e) < 15625000

\* The sign of float(tok) / 100 minus the exact hundredth of tok = a / 10^7:
\* float(tok) is the integer nearest to a * 2^s / 10^7 = a * 2^(s-7) / 5^7
\* scaled by 2^-s (x is a * 2^(s-7) modulo 100 * 5^7, which gives what the
\* division leaves and the last two digits of the quotient), and the
\* division by 100 rounds once more, to the integer nearest to that integer
\* times 2^k / 100.
percent_error(a, s, k) ==
    LET x == ShiftMod(a % (100 * 5 ^ 7), s - 7, 100 * 5 ^ 7)
        r1 == (x % (5 ^ 7)) * 2 ^ 7
        up == IF 2 * r1 > Pow10(7) THEN 1 ELSE 0
        r2 == (((x \div (5 ^ 7)) + up) * 2 ^ k) % 100
    IN (IF up = 1 THEN Pow10(7) - r1 ELSE -r1) * 2 ^ k
       + (IF r2 > 50 THEN 100 - r2 ELSE -r2) * Pow10(7)

\* round(x, 8) for the double x = float(tok) / 100 of a text whose digits
\* after the sixth decimal are 5 and zeros (a is the text's value in units
\* of 10^-7, q its value in units of 10^-6 rounded down): the side of the
\* halfway point on which x lies decides, and only an x that is the halfway
\* point exactly goes to the even neighbour.
round_halfway(a, q, e) ==
    IF percent_error(a, 52 - e, IF small_fraction(a, e) THEN 7 ELSE 6) > 0 THEN q + 1
    ELSE IF percent_error(a, 52 - e, IF small_fraction(a, e) THEN 7 ELSE 6) < 0 THEN q
    ELSE IF q % 2 = 0 THEN q ELSE q + 1

\* round(a / 10^d / 100, 8) in units of 10^-8, for digits a of at most nine
\* places, d > 6 of them decimals.  The double float(tok) / 100 differs from
\* the exact hundredth by less than 2^-51 of it, which is less than what
\* separates a nine-digit value from a halfway point it is not on.
round_percent(a, d) ==
    IF 2 * (a % Pow10(d - 6)) < Pow10(d - 6) THEN a \div Pow10(d - 6)
    ELSE IF 2 * (a % Pow10(d - 6)) > Pow10(d - 6) THEN a \div Pow10(d - 6) + 1
    ELSE round_halfway(a \div Pow10(d - 7), a \div Pow10(d - 6),
                       binary_exponent(a \div Pow10(d - 7), Pow10(7)))

\* The exact quotient a / b rounded to the nearest integer, ties to the even
\* one.
RoundDiv(a, b) ==
    LET q == a \div b
        r == a % b
    IN IF 2 * r < b THEN q
       ELSE IF 2 * r > b THEN q + 1
       ELSE IF q % 2 = 0 THEN q ELSE q + 1

\* n / (m * 2^q) rounded to the nearest integer, ties to the even one.
scaled_round(n, m, q) ==
    IF q >= 0 THEN RoundDiv(n, m * 2 ^ q) ELSE RoundDiv(n * 2 ^ (-q), m)

\* The double nearest to n / m, as <<M, q>> of value M * 2^q: a mantissa of
\* 53 bits, fewer below the least normal exponent, rounded to even (M = 2^53
\* stands for the next power of two).
nearest_double(n, m) ==
    IF n = 0 THEN <<0, 0>>
    ELSE IF binary_exponent(n, m) - 52 < -1074
    THEN <<scaled_round(n, m, -1074), -1074>>
    ELSE <<scaled_round(n, m, binary_exponent(n, m) - 52), binary_exponent(n, m) - 52>>

\* round(float(tok) / 100, 8) in units of 10^-8 for digits a, d of them
\* decimals, computed as the interpreter does: f is the double nearest to
\* a / 10^d, x the double nearest to f / 100, and round() gives the multiple
\* of 10^-8 nearest to x.  A text beyond the largest double gives inf, which
\* the division and round() leave as it is.
round_float_percent(a, d) ==
    LET f == nearest_double(a, Pow10(d))
        x == IF f[2] >= 0 THEN nearest_double(f[1] * 2 ^ f[2], 100)
             ELSE nearest_double(f[1], 100 * 2 ^ (-f[2]))
    IN IF f[2] > 971 \/ (f[2] = 971 /\ f[1] = 2 ^ 53) THEN "inf"
       ELSE IF x[2] >= 0 THEN x[1] * 2 ^ x[2] * Pow10(8)
       ELSE RoundDiv(x[1] * Pow10(8), 2 ^ (-x[2]))

\* round(float(tok) / 100, 8), as a count of units of 10^-8
\* (0.375 is 37500000).  With at most nine digits, a text of at most six
\* decimals is a whole number of units (fewer than 2^51 of them, so the
\* double is less than half a unit away), and a longer one is rounded as the
\* double float(tok) / 100 lies; beyond nine digits the doubles are
\* computed.
percent_of(tok) ==
    LET digits == Without(tok, ".")
        dot == IF Count1(tok, ".") = 0 THEN Len(tok) + 1
               ELSE CHOOSE k \in 1..Len(tok) : tok[k] = "."
        scale == Len(tok) - dot + (IF dot > Len(tok) THEN 1 ELSE 0)
    IN IF Len(digits) > 9 THEN round_float_percent(ToInt(digits), scale)
       ELSE IF scale <= 6 THEN ToInt(digits) * Pow10(6 - scale)
       ELSE round_percent(ToInt(digits), scale)

\* Filing13D._parse_percent_acquired: the first numeric run after the phrase
\* that "%" follows; findall(...)[0] raises IndexError without a match.
parse_percent_acquired(file) ==
    LET part == file.document.percent
        ms == IF part = None THEN <<>>
              ELSE SelectSeq(part[1], LAMBDA it : it.pct)
    IN IF Len(ms) = 0 THEN [err |-> "IndexError"]
       ELSE IF ~is_float(ms[1].tok) THEN [err |-> "ValueError"]
       ELSE [err |-> "none", val |-> percent_of(ms[1].tok)]

\* Where ([0-9]+,[0-9,]+) first matches inside a run of [0-9,]: the least
\* offset from which digits, a comma and at least one more character follow;
\* 0 when there is none.
shares_match(tok) ==
    LET ok(i) == \E j \in (i + 1)..(Len(tok) - 1) :
                    /\ tok[j] = ","
                    /\ \A k \in i..(j - 1) : tok[k] \in Digits
        starts == {i \in 1..Len(tok) : ok(i)}
    IN IF starts = {} THEN 0
       ELSE CHOOSE i \in starts : \A k \in starts : i <= k

\* Filing13D._parse_shares_acquired
parse_shares_acquired(file) ==
    LET part == file.document.shares
        ms == IF part = None THEN <<>>
              ELSE SelectSeq(part[1], LAMBDA tok : shares_match(tok) # 0)
    IN IF Len(ms) = 0 THEN [err |-> "IndexError"]
       ELSE LET tok == ms[1]
                shares == SubSeq(tok, shares_match(tok), Len(tok))
            IN [err |-> "none", val |-> ToInt(Without(shares, ","))]

\* Filing13D.__init__ after super().__init__ returned: first exception.
d13_init_error(file) ==
    LET h == file.header
        si == split_header(h)[1]
    IN IF parse_name(h, si).err # "none" THEN "IndexError"
       ELSE IF parse_cik(h, si).err # "none" THEN "IndexError"
       ELSE parse_cusip(file).err

\* self._subject as Filing13D.__init__ leaves it.
d13_init_subject(file) ==
    LET h == file.header
        si == split_header(h)[1]
    IN [name |-> parse_name(h, si).val,
        cik |-> parse_cik(h, si).val,
        cusip |-> parse_cusip(file).val,
        sic_name |-> sic_or_none(h, si)[1],
        sic_code |-> sic_or_none(h, si)[2]]

\* The empty dict.
EmptyDict == <<>>

SecInit ==
    /\ secPc = "new"
    /\ secCls = "none"
    /\ secFile = "none"
    /\ secErr = "none"
    /\ filer = <<>>
    /\ subject = EmptyDict
    /\ subject_information = <<>>
    /\ filer_information = <<>>
    /\ filing_date = None
    /\ percent_acquired = None
    /\ shares_acquired = None
    /\ secParses = [percent |-> 0, shares |-> 0]
    /\ secLast = [op |-> "none", out |-> "none", val |-> None]
    /\ secCalls = 0

Raise(cls, file, e) ==
    /\ secPc' = "raised"
    /\ secCls' = cls
    /\ secFile' = file
    /\ secErr' = e
    /\ UNCHANGED <<filer, subject, subject_information, filer_information,
                   filing_date>>

\* SECFiling(file)
NewSECFiling ==
    /\ secPc = "new"
    /\ UNCHANGED <<yVars, tVars, hVars>>
    /\ UNCHANGED <<percent_acquired, shares_acquired, secParses, secLast, secCalls>>
    /\ \E file \in Files :
         IF sec_init_error(file) # "none"
         THEN Raise("SECFiling", file, sec_init_error(file))
         ELSE /\ secPc' = "done"
              /\ secCls' = "SECFiling"
              /\ secFile' = file
              /\ secErr' = "none"
              /\ subject_information' = split_header(file.header)[1]
              /\ filer_information' = split_header(file.header)[2]
              /\ filer' = sec_init_filer(file)
              /\ filing_date' = Some(parse_filing_date(file).val)
              /\ subject' = EmptyDict

\* Filing13D(file) and Filing13G(file), whose constructor only calls
\* Filing13D.__init__.
New13(cls) ==
    /\ secPc = "new"
    /\ UNCHANGED <<yVars, tVars, hVars>>
    /\ UNCHANGED <<percent_acquired, shares_acquired, secParses, secLast, secCalls>>
    /\ \E file \in Files :
         IF sec_init_error(file) # "none"
         THEN Raise(cls, file, sec_init_error(file))
         ELSE IF d13_init_error(file) # "none"
         THEN Raise(cls, file, d13_init_error(file))
         ELSE /\ secPc' = "done"
              /\ secCls' = cls
              /\ secFile' = file
              /\ secErr' = "none"
              /\ subject_information' = split_header(file.header)[1]
              /\ filer_information' = split_header(file.header)[2]
              /\ filer' = sec_init_filer(file)
              /\ filing_date' = Some(parse_filing_date(file).val)
              /\ subject' = d13_init_subject(file)

NewFiling13D == New13("Filing13D")

NewFiling13G == New13("Filing13G")

IsFiling13D == secPc = "done" /\ secCls \in {"Filing13D", "Filing13G"}

\* An access that parses whether or not the attribute is set.
SecAccess_uncached(op, attr, parsed) ==
    /\ secCalls' = secCalls + 1
    /\ secParses' = [secParses EXCEPT ![op] = @ + 1]
    /\ secLast' = IF parsed.err = "none"
                  THEN [op |-> op, out |-> "ok", val |-> Some(parsed.val)]
                  ELSE [op |-> op, out |-> parsed.err, val |-> None]
    /\ UNCHANGED <<secPc, secCls, secFile, secErr, filer, subject,
                   subject_information, filer_information, filing_date>>
    /\ UNCHANGED <<yVars, tVars, hVars>>

\* One access of a lazily computed property: hasattr guard, parse, store.
\* A parse that raises leaves the attribute unset.
SecAccess(op, attr, parsed) ==
    /\ secCalls' = secCalls + 1
    /\ IF attr # None
       THEN /\ secLast' = [op |-> op, out |-> "ok", val |-> attr]
            /\ UNCHANGED secParses
       ELSE /\ secParses' = [secParses EXCEPT ![op] = @ + 1]
            /\ secLast' = IF parsed.err = "none"
                          THEN [op |-> op, out |-> "ok", val |-> Some(parsed.val)]
                          ELSE [op |-> op, out |-> parsed.err, val |-> None]
    /\ UNCHANGED <<secPc, secCls, secFile, secErr, filer, subject,
                   subject_information, filer_information, filing_date>>
    /\ UNCHANGED <<yVars, tVars, hVars>>

\* Filing13D.percent_acquired
PercentAcquired ==
    /\ IsFiling13D
    /\ secCalls < MaxCalls
    /\ SecAccess("percent", percent_acquired, parse_percent_acquired(secFile))
    /\ percent_acquired' =
          IF percent_acquired = None /\ parse_percent_acquired(secFile).err = "none"
          THEN Some(parse_percent_acquired(secFile).val)
          ELSE percent_acquired
    /\ UNCHANGED shares_acquired

\* Filing13D.shares_acquired
SharesAcquired ==
    /\ IsFiling13D
    /\ secCalls < MaxCalls
    /\ SecAccess("shares", shares_acquired, parse_shares_acquired(secFile))
    /\ shares_acquired' =
          IF shares_acquired = None /\ parse_shares_acquired(secFile).err = "none"
          THEN Some(parse_shares_acquired(secFile).val)
          ELSE shares_acquired
    /\ UNCHANGED percent_acquired

\* The instance attributes that SECFiling.__init__ and Filing13D.__init__
\* assign; the two lazy properties add theirs on a successful parse.
InitAttributes == {
    "_file", "_header", "_document", "_subject_information",
    "_filer_information", "_filer", "_subject", "_form_type", "_filing_date",
    "_header_information", "company_information", "_is_html" }

\* return self._subject_cusip: the value of the attribute, AttributeError
\* when the instance has none of that name.
subject_cusip(attributes, filing_subject) ==
    IF "_subject_cusip" \in attributes
    THEN [out |-> "ok", val |-> Some(filing_subject.cusip)]
    ELSE [out |-> "AttributeError", val |-> None]

\* Filing13D.subject_cusip
SubjectCusip ==
    /\ IsFiling13D
    /\ secCalls < MaxCalls
    /\ secCalls' = secCalls + 1
    /\ LET attributes == InitAttributes
                \cup (IF percent_acquired # None THEN {"_percent_acquired"} ELSE {})
                \cup (IF shares_acquired # None THEN {"_shares_acquired"} ELSE {})
           r == subject_cusip(attributes, subject)
       IN secLast' = [op |-> "subject_cusip", out |-> r.out, val |-> r.val]
    /\ UNCHANGED <<secPc, secCls, secFile, secErr, filer, subject,
                   subject_information, filer_information, filing_date>>
    /\ UNCHANGED <<percent_acquired, shares_acquired, secParses>>
    /\ UNCHANGED <<yVars, tVars, hVars>>

----------------------------------------------------------------------------
(* Python dict helpers: a dict is a function on its key set *)

DictRemove(d, k) == [x \in DOMAIN d \ {k} |-> d[x]]

DictPut(d, k, v) == (k :> v) @@ d

----------------------------------------------------------------------------
(* yahoo.py *)

\* Seconds of a day (timedelta.total_seconds of one day).
DaySeconds == 86400

HalfDay == 43200

\* date.toordinal(): days from 0001-01-01, which is day 1.
DaysBeforeYear(y) ==
    LET p == y - 1 IN p * 365 + (p \div 4) - (p \div 100) + (p \div 400)

RECURSIVE DaysBeforeMonth(_, _)
DaysBeforeMonth(y, m) ==
    IF m = 1 THEN 0 ELSE DaysBeforeMonth(y, m - 1) + DaysInMonth(y, m - 1)

toordinal(y, m, d) == DaysBeforeYear(y) + DaysBeforeMonth(y, m) + d

\* (date(y, m, d) - date(1970, 1, 1)).days
EpochDays(y, m, d) == toordinal(y, m, d) - toordinal(1970, 1, 1)

\* date(1970, 1, 1) + timedelta(days = n) for n >= 0, as <<year, month, day>>.
RECURSIVE date_from(_, _, _)
date_from(y, m, n) ==
    IF n >= (IF IsLeap(y) THEN 366 ELSE 365) /\ m = 1
    THEN date_from(y + 1, 1, n - (IF IsLeap(y) THEN 366 ELSE 365))
    ELSE IF n >= DaysInMonth(y, m) THEN date_from(y, m + 1, n - DaysInMonth(y, m))
    ELSE <<y, m, n + 1>>

\* (date(1970, 1, 1) + timedelta(seconds = s)).isoformat() for s >= 0: the
\* sum of a date and a timedelta keeps the whole days only.
iso_date_of_seconds(s) ==
    LET d == date_from(1970, 1, s \div DaySeconds)
    IN isoformat(d[1], d[2], d[3])

MaxMissing == 1

\* The modules of the quoteSummary bundle that the reader uses.
ModuleKeys == {
    "assetProfile", "quoteType", "upgradeDowngradeHistory", "recommendationTrend",
    "institutionOwnership", "fundOwnership", "insiderHolders",
    "majorHoldersBreakdown", "insiderTransactions", "esgScores", "secFilings",
    "fundProfile", "topHoldings",
    "incomeStatementHistory", "incomeStatementHistoryQuarterly",
    "balanceSheetHistory", "balanceSheetHistoryQuarterly",
    "cashflowStatementHistory", "cashflowStatementHistoryQuarterly" }

\* The fields of each module that the reader reads by name (of esgScores,
\* fundProfile and topHoldings the first ones read; the rest are read the
\* same way).
Fields(m) ==
    CASE m = "assetProfile" ->
            {"fullTimeEmployees", "longBusinessSummary", "website", "companyOfficers", "maxAge"}
      [] m = "quoteType" -> {"quoteType", "shortName"}
      [] m = "upgradeDowngradeHistory" -> {"history"}
      [] m = "recommendationTrend" -> {"trend"}
      [] m = "institutionOwnership" -> {"ownershipList"}
      [] m = "fundOwnership" -> {"ownershipList"}
      [] m = "insiderHolders" -> {"holders"}
      [] m = "majorHoldersBreakdown" ->
            {"insidersPercentHeld", "institutionsPercentHeld",
             "institutionsFloatPercentHeld", "institutionsCount", "maxAge"}
      [] m = "insiderTransactions" -> {"transactions"}
      [] m = "esgScores" ->
            {"ratingYear", "ratingMonth"}
      [] m = "secFilings" -> {"filings"}
      [] m = "fundProfile" ->
            {"family", "feesExpensesInvestment"}
      [] m = "topHoldings" ->
            {"stockPosition", "holdings"}
      [] m \in {"incomeStatementHistory", "incomeStatementHistoryQuarterly"} ->
            {"incomeStatementHistory"}
      [] m \in {"balanceSheetHistory", "balanceSheetHistoryQuarterly"} ->
            {"balanceSheetStatements"}
      [] m \in {"cashflowStatementHistory", "cashflowStatementHistoryQuarterly"} ->
            {"cashflowStatements"}

\* The fields upstream may leave out of a module it sends: of each group of
\* fields that the reader reads the same way, the first (of the renames of
\* ownership_breakdown the first and the last, and the popped maxAge).
OptionalFields == {
    "fullTimeEmployees", "website", "quoteType", "history",
    "insidersPercentHeld", "institutionsCount", "maxAge",
    "ratingYear", "family", "stockPosition", "incomeStatementHistory" }

\* What upstream may leave out: a whole module <<m>> or one field <<m, f>>.
Paths == {<<m>> : m \in ModuleKeys}
            \cup UNION { {<<m, f>> : f \in Fields(m) \cap OptionalFields} : m \in ModuleKeys }

RECURSIVE PathSets(_)
PathSets(n) ==
    IF n = 0 THEN {{}}
    ELSE PathSets(n - 1) \cup {S \cup {p} : S \in PathSets(n - 1), p \in Paths}

\* The payload that lacks the given paths; every field holds its own name,
\* so that a renamed field can be told from a fresh one.
Payload(missing) ==
    [m \in {k \in ModuleKeys : <<k>> \notin missing} |->
        [f \in {g \in Fields(m) : <<m, g>> \notin missing} |-> f]]

Payloads == {Payload(S) : S \in PathSets(MaxMissing)}

\* The JSON body of the quoteSummary response.
BundleResponses ==
    {[error |-> TRUE, result |-> None]}
        \cup {[error |-> FALSE, result |-> Some(p)] : p \in Payloads}

\* A ticker is held as the sequence of the code points of its characters.
\* The ticker arguments: the empty string, and ss1, SS1 and \u00DF1 (with the
\* sharp s, code point 223), which all read SS1 in upper case.
TickerStrings == {<<>>, <<115, 115, 49>>, <<83, 83, 49>>, <<223, 49>>}
TickerArgs == {None} \cup {Some(t) : t \in TickerStrings}
IsinArgs == {None, Some(<<"U", "1">>)}

\* The body of the identifier lookup response (max_results=1): the rows
\* |isin|symbol| it holds, the symbol being SS1.
LookupResponses ==
    {<<>>} \cup {<<[isin |-> i, symbol |-> <<83, 83, 49>>]>> :
                     i \in {<<"U", "1">>, <<"U", "2">>}}

\* The upper-case form of one character under str.upper: the full case
\* mapping of Unicode 14.0, which gives up to three characters and depends on
\* nothing but the character.
UpperChar(c) ==
    CASE c \in 97..122 -> <<c - 32>>
      [] c = 181 -> <<c + 743>>
      [] c \in 224..246 -> <<c - 32>>
      [] c \in 248..254 -> <<c - 32>>
      [] c = 255 -> <<c + 121>>
      [] c \in 257..303 /\ c % 2 = 1 -> <<c - 1>>
      [] c = 305 -> <<c - 232>>
      [] c \in 307..311 /\ c % 2 = 1 -> <<c - 1>>
      [] c \in 314..328 /\ c % 2 = 0 -> <<c - 1>>
      [] c \in 331..375 /\ c % 2 = 1 -> <<c - 1>>
      [] c \in 378..382 /\ c % 2 = 0 -> <<c - 1>>
      [] c = 383 -> <<c - 300>>
      [] c = 384 -> <<c + 195>>
      [] c \in 387..389 /\ c % 2 = 1 -> <<c - 1>>
      [] c = 392 -> <<c - 1>>
      [] c = 396 -> <<c - 1>>
      [] c = 402 -> <<c - 1>>
      [] c = 405 -> <<c + 97>>
      [] c = 409 -> <<c - 1>>
      [] c = 410 -> <<c + 163>>
      [] c = 414 -> <<c + 130>>
      [] c \in 417..421 /\ c % 2 = 1 -> <<c - 1>>
      [] c = 424 -> <<c - 1>>
      [] c = 429 -> <<c - 1>>
      [] c = 432 -> <<c - 1>>
      [] c \in 436..438 /\ c % 2 = 0 -> <<c - 1>>
      [] c = 441 -> <<c - 1>>
      [] c = 445 -> <<c - 1>>
      [] c = 447 -> <<c + 56>>
      [] c = 453 -> <<c - 1>>
      [] c = 454 -> <<c - 2>>
      [] c = 456 -> <<c - 1>>
      [] c = 457 -> <<c - 2>>
      [] c = 459 -> <<c - 1>>
      [] c = 460 -> <<c - 2>>
      [] c \in 462..476 /\ c % 2 = 0 -> <<c - 1>>
      [] c = 477 -> <<c - 79>>
      [] c \in 479..495 /\ c % 2 = 1 -> <<c - 1>>
      [] c = 498 -> <<c - 1>>
      [] c = 499 -> <<c - 2>>
      [] c = 501 -> <<c - 1>>
      [] c \in 505..543 /\ c % 2 = 1 -> <<c - 1>>
      [] c \in 547..563 /\ c % 2 = 1 -> <<c - 1>>
      [] c = 572 -> <<c - 1>>
      [] c \in 575..576 -> <<c + 10815>>
      [] c = 578 -> <<c - 1>>
      [] c \in 583..591 /\ c % 2 = 1 -> <<c - 1>>
      [] c = 592 -> <<c + 10783>>
      [] c = 593 -> <<c + 10780>>
      [] c = 594 -> <<c + 10782>>
      [] c = 595 -> <<c - 210>>
      [] c = 596 -> <<c - 206>>
      [] c \in 598..599 -> <<c - 205>>
      [] c = 601 -> <<c - 202>>
      [] c = 603 -> <<c - 203>>
      [] c = 604 -> <<c + 42319>>
      [] c = 608 -> <<c - 205>>
      [] c = 609 -> <<c + 42315>>
      [] c = 611 -> <<c - 207>>
      [] c = 613 -> <<c + 42280>>
      [] c = 614 -> <<c + 42308>>
      [] c = 616 -> <<c - 209>>
      [] c = 617 -> <<c - 211>>
      [] c = 618 -> <<c + 42308>>
      [] c = 619 -> <<c + 10743>>
      [] c = 620 -> <<c + 42305>>
      [] c = 623 -> <<c - 211>>
      [] c = 625 -> <<c + 10749>>
      [] c = 626 -> <<c - 213>>
      [] c = 629 -> <<c - 214>>
      [] c = 637 -> <<c + 10727>>
      [] c = 640 -> <<c - 218>>
      [] c = 642 -> <<c + 42307>>
      [] c = 643 -> <<c - 218>>
      [] c = 647 -> <<c + 42282>>
      [] c = 648 -> <<c - 218>>
      [] c = 649 -> <<c - 69>>
      [] c \in 650..651 -> <<c - 217>>
      [] c = 652 -> <<c - 71>>
      [] c = 658 -> <<c - 219>>
      [] c = 669 -> <<c + 42261>>
      [] c = 670 -> <<c + 42258>>
      [] c = 837 -> <<c + 84>>
      [] c \in 881..883 /\ c % 2 = 1 -> <<c - 1>>
      [] c = 887 -> <<c - 1>>
      [] c \in 891..893 -> <<c + 130>>
      [] c = 940 -> <<c - 38>>
      [] c \in 941..943 -> <<c - 37>>
      [] c \in 945..961 -> <<c - 32>>
      [] c = 962 -> <<c - 31>>
      [] c \in 963..971 -> <<c - 32>>
      [] c = 972 -> <<c - 64>>
      [] c \in 973..974 -> <<c - 63>>
      [] c = 976 -> <<c - 62>>
      [] c = 977 -> <<c - 57>>
      [] c = 981 -> <<c - 47>>
      [] c = 982 -> <<c - 54>>
      [] c = 983 -> <<c - 8>>
      [] c \in 985..1007 /\ c % 2 = 1 -> <<c - 1>>
      [] c = 1008 -> <<c - 86>>
      [] c = 1009 -> <<c - 80>>
      [] c = 1010 -> <<c + 7>>
      [] c = 1011 -> <<c - 116>>
      [] c = 1013 -> <<c - 96>>
      [] c = 1016 -> <<c - 1>>
      [] c = 1019 -> <<c - 1>>
      [] c \in 1072..1103 -> <<c - 32>>
      [] c \in 1104..1119 -> <<c - 80>>
      [] c \in 1121..1153 /\ c % 2 = 1 -> <<c - 1>>
      [] c \in 1163..1215 /\ c % 2 = 1 -> <<c - 1>>
      [] c \in 1218..1230 /\ c % 2 = 0 -> <<c - 1>>
      [] c = 1231 -> <<c - 15>>
      [] c \in 1233..1327 /\ c % 2 = 1 -> <<c - 1>>
      [] c \in 1377..1414 -> <<c - 48>>
      [] c \in 4304..4346 -> <<c + 3008>>
      [] c \in 4349..4351 -> <<c + 3008>>
      [] c \in 5112..5117 -> <<c - 8>>
      [] c = 7296 -> <<c - 6254>>
      [] c = 7297 -> <<c - 6253>>
      [] c = 7298 -> <<c - 6244>>
      [] c \in 7299..7300 -> <<c - 6242>>
      [] c = 7301 -> <<c - 6243>>
      [] c = 7302 -> <<c - 6236>>
      [] c = 7303 -> <<c - 6181>>
      [] c = 7304 -> <<c + 35266>>
      [] c = 7545 -> <<c + 35332>>
      [] c = 7549 -> <<c + 3814>>
      [] c = 7566 -> <<c + 35384>>
      [] c \in 7681..7829 /\ c % 2 = 1 -> <<c - 1>>
      [] c = 7835 -> <<c - 59>>
      [] c \in 7841..7935 /\ c % 2 = 1 -> <<c - 1>>
      [] c \in 7936..7943 -> <<c + 8>>
      [] c \in 7952..7957 -> <<c + 8>>
      [] c \in 7968..7975 -> <<c + 8>>
      [] c \in 7984..7991 -> <<c + 8>>
      [] c \in 8000..8005 -> <<c + 8>>
      [] c \in 8017..8023 /\ c % 2 = 1 -> <<c + 8>>
      [] c \in 8032..8039 -> <<c + 8>>
      [] c \in 8048..8049 -> <<c + 74>>
      [] c \in 8050..8053 -> <<c + 86>>
      [] c \in 8054..8055 -> <<c + 100>>
      [] c \in 8056..8057 -> <<c + 128>>
      [] c \in 8058..8059 -> <<c + 112>>
      [] c \in 8060..8061 -> <<c + 126>>
      [] c \in 8112..8113 -> <<c + 8>>
      [] c = 8126 -> <<c - 7205>>
      [] c \in 8144..8145 -> <<c + 8>>
      [] c \in 8160..8161 -> <<c + 8>>
      [] c = 8165 -> <<c + 7>>
      [] c = 8526 -> <<c - 28>>
      [] c \in 8560..8575 -> <<c - 16>>
      [] c = 8580 -> <<c - 1>>
      [] c \in 9424..9449 -> <<c - 26>>
      [] c \in 11312..11359 -> <<c - 48>>
      [] c = 11361 -> <<c - 1>>
      [] c = 11365 -> <<c - 10795>>
      [] c = 11366 -> <<c - 10792>>
      [] c \in 11368..11372 /\ c % 2 = 0 -> <<c - 1>>
      [] c = 11379 -> <<c - 1>>
      [] c = 11382 -> <<c - 1>>
      [] c \in 11393..11491 /\ c % 2 = 1 -> <<c - 1>>
      [] c \in 11500..11502 /\ c % 2 = 0 -> <<c - 1>>
      [] c = 11507 -> <<c - 1>>
      [] c \in 11520..11557 -> <<c - 7264>>
      [] c = 11559 -> <<c - 7264>>
      [] c = 11565 -> <<c - 7264>>
      [] c \in 42561..42605 /\ c % 2 = 1 -> <<c - 1>>
      [] c \in 42625..42651 /\ c % 2 = 1 -> <<c - 1>>
      [] c \in 42787..42799 /\ c % 2 = 1 -> <<c - 1>>
      [] c \in 42803..42863 /\ c % 2 = 1 -> <<c - 1>>
      [] c \in 42874..42876 /\ c % 2 = 0 -> <<c - 1>>
      [] c \in 42879..42887 /\ c % 2 = 1 -> <<c - 1>>
      [] c = 42892 -> <<c - 1>>
      [] c \in 42897..42899 /\ c % 2 = 1 -> <<c - 1>>
      [] c = 42900 -> <<c + 48>>
      [] c \in 42903..42921 /\ c % 2 = 1 -> <<c - 1>>
      [] c \in 42933..42947 /\ c % 2 = 1 -> <<c - 1>>
      [] c \in 42952..42954 /\ c % 2 = 0 -> <<c - 1>>
      [] c = 42961 -> <<c - 1>>
      [] c \in 42967..42969 /\ c % 2 = 1 -> <<c - 1>>
      [] c = 42998 -> <<c - 1>>
      [] c = 43859 -> <<c - 928>>
      [] c \in 43888..43967 -> <<c - 38864>>
      [] c \in 65345..65370 -> <<c - 32>>
      [] c \in 66600..66639 -> <<c - 40>>
      [] c \in 66776..66811 -> <<c - 40>>
      [] c \in 66967..66977 -> <<c - 39>>
      [] c \in 66979..66993 -> <<c - 39>>
      [] c \in 66995..67001 -> <<c - 39>>
      [] c \in 67003..67004 -> <<c - 39>>
      [] c \in 68800..68850 -> <<c - 64>>
      [] c \in 71872..71903 -> <<c - 32>>
      [] c \in 93792..93823 -> <<c - 32>>
      [] c \in 125218..125251 -> <<c - 34>>
      [] c = 223 -> <<83, 83>>
      [] c = 329 -> <<700, 78>>
      [] c = 496 -> <<74, 780>>
      [] c = 912 -> <<921, 776, 769>>
      [] c = 944 -> <<933, 776, 769>>
      [] c = 1415 -> <<1333, 1362>>
      [] c = 7830 -> <<72, 817>>
      [] c = 7831 -> <<84, 776>>
      [] c = 7832 -> <<87, 778>>
      [] c = 7833 -> <<89, 778>>
      [] c = 7834 -> <<65, 702>>
      [] c = 8016 -> <<933, 787>>
      [] c = 8018 -> <<933, 787, 768>>
      [] c = 8020 -> <<933, 787, 769>>
      [] c = 8022 -> <<933, 787, 834>>
      [] c = 8064 -> <<7944, 921>>
      [] c = 8065 -> <<7945, 921>>
      [] c = 8066 -> <<7946, 921>>
      [] c = 8067 -> <<7947, 921>>
      [] c = 8068 -> <<7948, 921>>
      [] c = 8069 -> <<7949, 921>>
      [] c = 8070 -> <<7950, 921>>
      [] c = 8071 -> <<7951, 921>>
      [] c = 8072 -> <<7944, 921>>
      [] c = 8073 -> <<7945, 921>>
      [] c = 8074 -> <<7946, 921>>
      [] c = 8075 -> <<7947, 921>>
      [] c = 8076 -> <<7948, 921>>
      [] c = 8077 -> <<7949, 921>>
      [] c = 8078 -> <<7950, 921>>
      [] c = 8079 -> <<7951, 921>>
      [] c = 8080 -> <<7976, 921>>
      [] c = 8081 -> <<7977, 921>>
      [] c = 8082 -> <<7978, 921>>
      [] c = 8083 -> <<7979, 921>>
      [] c = 8084 -> <<7980, 921>>
      [] c = 8085 -> <<7981, 921>>
      [] c = 8086 -> <<7982, 921>>
      [] c = 8087 -> <<7983, 921>>
      [] c = 8088 -> <<7976, 921>>
      [] c = 8089 -> <<7977, 921>>
      [] c = 8090 -> <<7978, 921>>
      [] c = 8091 -> <<7979, 921>>
      [] c = 8092 -> <<7980, 921>>
      [] c = 8093 -> <<7981, 921>>
      [] c = 8094 -> <<7982, 921>>
      [] c = 8095 -> <<7983, 921>>
      [] c = 8096 -> <<8040, 921>>
      [] c = 8097 -> <<8041, 921>>
      [] c = 8098 -> <<8042, 921>>
      [] c = 8099 -> <<8043, 921>>
      [] c = 8100 -> <<8044, 921>>
      [] c = 8101 -> <<8045, 921>>
      [] c = 8102 -> <<8046, 921>>
      [] c = 8103 -> <<8047, 921>>
      [] c = 8104 -> <<8040, 921>>
      [] c = 8105 -> <<8041, 921>>
      [] c = 8106 -> <<8042, 921>>
      [] c = 8107 -> <<8043, 921>>
      [] c = 8108 -> <<8044, 921>>
      [] c = 8109 -> <<8045, 921>>
      [] c = 8110 -> <<8046, 921>>
      [] c = 8111 -> <<8047, 921>>
      [] c = 8114 -> <<8122, 921>>
      [] c = 8115 -> <<913, 921>>
      [] c = 8116 -> <<902, 921>>
      [] c = 8118 -> <<913, 834>>
      [] c = 8119 -> <<913, 834, 921>>
      [] c = 8124 -> <<913, 921>>
      [] c = 8130 -> <<8138, 921>>
      [] c = 8131 -> <<919, 921>>
      [] c = 8132 -> <<905, 921>>
      [] c = 8134 -> <<919, 834>>
      [] c = 8135 -> <<919, 834, 921>>
      [] c = 8140 -> <<919, 921>>
      [] c = 8146 -> <<921, 776, 768>>
      [] c = 8147 -> <<921, 776, 769>>
      [] c = 8150 -> <<921, 834>>
      [] c = 8151 -> <<921, 776, 834>>
      [] c = 8162 -> <<933, 776, 768>>
      [] c = 8163 -> <<933, 776, 769>>
      [] c = 8164 -> <<929, 787>>
      [] c = 8166 -> <<933, 834>>
      [] c = 8167 -> <<933, 776, 834>>
      [] c = 8178 -> <<8186, 921>>
      [] c = 8179 -> <<937, 921>>
      [] c = 8180 -> <<911, 921>>
      [] c = 8182 -> <<937, 834>>
      [] c = 8183 -> <<937, 834, 921>>
      [] c = 8188 -> <<937, 921>>
      [] c = 64256 -> <<70, 70>>
      [] c = 64257 -> <<70, 73>>
      [] c = 64258 -> <<70, 76>>
      [] c = 64259 -> <<70, 70, 73>>
      [] c = 64260 -> <<70, 70, 76>>
      [] c = 64261 -> <<83, 84>>
      [] c = 64262 -> <<83, 84>>
      [] c = 64275 -> <<1348, 1350>>
      [] c = 64276 -> <<1348, 1333>>
      [] c = 64277 -> <<1348, 1339>>
      [] c = 64278 -> <<1358, 1350>>
      [] c = 64279 -> <<1348, 1341>>
      [] OTHER -> <<c>>

\* str.upper
RECURSIVE Upper(_)
Upper(s) == IF Len(s) = 0 THEN <<>> ELSE UpperChar(Head(s)) \o Upper(Tail(s))

\* Truth value of an optional string argument.
Truthy(a) == a # None /\ Len(a[1]) > 0

\* YahooReader.__init__, the choice of the ticker.
init_ticker_plain(t, i, resp) ==
    IF Truthy(t) THEN [err |-> "none", ticker |-> Some(t[1]), lookups |-> 0]
    ELSE IF Truthy(i)
         THEN LET ms == SelectSeq(resp, LAMBDA e : e.isin = i[1])
              IN IF Len(ms) = 0
                 THEN [err |-> "ValueError", ticker |-> None, lookups |-> 1]
                 ELSE [err |-> "none", ticker |-> Some(ms[1].symbol), lookups |-> 1]
    ELSE [err |-> "ValueError", ticker |-> None, lookups |-> 0]

init_ticker(t, i, resp) ==
    IF Truthy(t) THEN [err |-> "none", ticker |-> Some(Upper(t[1])), lookups |-> 0]
    ELSE IF Truthy(i)
         THEN LET ms == SelectSeq(resp, LAMBDA e : e.isin = i[1])
              IN IF Len(ms) = 0
                 THEN [err |-> "ValueError", ticker |-> None, lookups |-> 1]
                 ELSE [err |-> "none", ticker |-> Some(ms[1].symbol), lookups |-> 1]
    ELSE [err |-> "ValueError", ticker |-> None, lookups |-> 0]

\* YahooReader._get_stored_data on an instance without the attribute: one
\* request, TickerError when the body reports an error.
get_stored_data(resp) ==
    IF resp.error THEN [err |-> "TickerError", data |-> None, requests |-> 1]
    ELSE [err |-> "none", data |-> resp.result, requests |-> 1]

\* self._stored_data["quoteType"]["quoteType"] and [...]["shortName"]
init_quote_type(d) ==
    IF "quoteType" \notin DOMAIN d THEN "KeyError"
    ELSE IF {"quoteType", "shortName"} \subseteq DOMAIN d["quoteType"] THEN "none"
    ELSE "KeyError"

\* An accessor's read of the attribute self._stored_data.
stored_read_refetch(sd) == [data |-> sd[1], requests |-> 1]

stored_read(sd) == [data |-> sd[1], requests |-> 0]

\* try: data = self._stored_data[mod][inner]  except: raise DatasetError
\* (inner = "" when the try block reads the module only).
read_module_unguarded(d, mod, inner) ==
    IF mod \notin DOMAIN d THEN "KeyError"
    ELSE IF inner # "" /\ inner \notin DOMAIN d[mod] THEN "DatasetError"
    ELSE "none"

read_module(d, mod, inner) ==
    IF mod \notin DOMAIN d THEN "DatasetError"
    ELSE IF inner # "" /\ inner \notin DOMAIN d[mod] THEN "DatasetError"
    ELSE "none"

\* An accessor that reads the module, then the fields req of it by name.
reshape(d, mod, inner, req) ==
    IF read_module(d, mod, inner) # "none"
    THEN [out |-> read_module(d, mod, inner), val |-> None]
    ELSE IF req \subseteq DOMAIN d[mod] THEN [out |-> "ok", val |-> None]
    ELSE [out |-> "KeyError", val |-> None]

\* YahooReader.profile: works on a copy of the module.
profile(d) ==
    IF read_module(d, "assetProfile", "") # "none"
    THEN [out |-> read_module(d, "assetProfile", ""), val |-> None]
    ELSE LET data == d["assetProfile"]
         IN IF "fullTimeEmployees" \notin DOMAIN data THEN [out |-> "KeyError", val |-> None]
            ELSE IF "longBusinessSummary" \notin DOMAIN data THEN [out |-> "KeyError", val |-> None]
            ELSE IF "companyOfficers" \notin DOMAIN data THEN [out |-> "KeyError", val |-> None]
            ELSE [out |-> "ok",
                  val |-> Some(
                    [k \in (DOMAIN data \ {"fullTimeEmployees", "longBusinessSummary",
                                           "companyOfficers", "maxAge"})
                              \cup {"employees", "description", "executives"} |->
                        CASE k = "employees" -> data["fullTimeEmployees"]
                          [] k = "description" -> data["longBusinessSummary"]
                          [] k = "executives" -> data["companyOfficers"]
                          [] OTHER -> data[k]])]

\* The image bodies the logo sources answer with.
LogoBodies == {"image", "PLACEHOLDER_LOGO", "SERVER_ERROR_MESSAGE"}

\* YahooReader.logo, given the body of the first image source.
logo(d, body) ==
    IF body \notin {"PLACEHOLDER_LOGO", "SERVER_ERROR_MESSAGE"}
    THEN [out |-> "ok", val |-> Some(body), nreq |-> 1]
    ELSE IF profile(d).out # "ok"
    THEN [out |-> profile(d).out, val |-> None, nreq |-> 1]
    ELSE IF "website" \in DOMAIN profile(d).val[1]
    THEN [out |-> "ok", val |-> Some("clearbit"), nreq |-> 2]
    ELSE [out |-> "ok", val |-> Some("newline"), nreq |-> 1]

\* The renames of ownership_breakdown, in program order.
Renames == <<
    <<"insidersPercentHeld", "insider_ownership">>,
    <<"institutionsPercentHeld", "institutions_ownership">>,
    <<"institutionsFloatPercentHeld", "institutions_ownership_float">>,
    <<"institutionsCount", "count_institutions">> >>

\* data[new] = data.pop(old) for the renames from the i-th on, then
\* data.pop("maxAge"); data is the dict being changed.  A missing key stops
\* the sequence with KeyError and leaves the changes made so far.
RECURSIVE rename_from(_, _)
rename_from(data, i) ==
    IF i > Len(Renames)
    THEN IF "maxAge" \in DOMAIN data
         THEN [out |-> "ok", data |-> DictRemove(data, "maxAge")]
         ELSE [out |-> "KeyError", data |-> data]
    ELSE IF Renames[i][1] \notin DOMAIN data
    THEN [out |-> "KeyError", data |-> data]
    ELSE rename_from(
            DictPut(DictRemove(data, Renames[i][1]), Renames[i][2], data[Renames[i][1]]),
            i + 1)

\* YahooReader.ownership_breakdown: data is the module object held by the
\* cache, not a copy; stored is the cache after the call.
ownership_breakdown(d) ==
    IF read_module(d, "majorHoldersBreakdown", "") # "none"
    THEN [out |-> read_module(d, "majorHoldersBreakdown", ""), val |-> None, stored |-> d]
    ELSE LET r == rename_from(d["majorHoldersBreakdown"], 1)
         IN [out |-> r.out,
             val |-> IF r.out = "ok" THEN Some(r.data) ELSE None,
             stored |-> [d EXCEPT !["majorHoldersBreakdown"] = r.data]]

analyst_recommendations(d) == reshape(d, "upgradeDowngradeHistory", "history", {})

recommendation_trend(d) == reshape(d, "recommendationTrend", "trend", {})

institutional_ownership(d) == reshape(d, "institutionOwnership", "ownershipList", {})

fund_ownership(d) == reshape(d, "fundOwnership", "ownershipList", {})

insider_ownership(d) == reshape(d, "insiderHolders", "holders", {})

insider_trades(d) == reshape(d, "insiderTransactions", "transactions", {})

esg_scores(d) ==
    reshape(d, "esgScores", "", {"ratingYear", "ratingMonth"})

sec_filings(d) == reshape(d, "secFilings", "filings", {})

fund_statistics(d) ==
    reshape(d, "fundProfile", "", {"family", "feesExpensesInvestment"})

holdings(d) ==
    reshape(d, "topHoldings", "", {"stockPosition", "holdings"})

\* YahooReader._get_fundamental_data
get_fundamental_data(d, statement_type, quarterly) ==
    CASE statement_type = "income_statement" ->
            reshape(d, IF quarterly THEN "incomeStatementHistoryQuarterly"
                       ELSE "incomeStatementHistory", "incomeStatementHistory", {})
      [] statement_type = "balance_sheet" ->
            reshape(d, IF quarterly THEN "balanceSheetHistoryQuarterly"
                       ELSE "balanceSheetHistory", "balanceSheetStatements", {})
      [] statement_type = "cashflow_statement" ->
            reshape(d, IF quarterly THEN "cashflowStatementHistoryQuarterly"
                       ELSE "cashflowStatementHistory", "cashflowStatements", {})

income_statement(d, quarterly) == get_fundamental_data(d, "income_statement", quarterly)

balance_sheet(d, quarterly) == get_fundamental_data(d, "balance_sheet", quarterly)

cashflow_statement(d, quarterly) == get_fundamental_data(d, "cashflow_statement", quarterly)

\* YahooReader.financial_statement: the three statements in turn.
financial_statement(d, quarterly) ==
    IF income_statement(d, quarterly).out # "ok" THEN income_statement(d, quarterly)
    ELSE IF balance_sheet(d, quarterly).out # "ok" THEN balance_sheet(d, quarterly)
    ELSE cashflow_statement(d, quarterly)

YInit ==
    /\ yPc = "new"
    /\ ticker = None
    /\ stored_data = None
    /\ fetched = None
    /\ isin_cache = None
    /\ yReq = [lookup |-> 0, bundle |-> 0]
    /\ yLast = [op |-> "none", args |-> <<>>, out |-> "none", val |-> None, nreq |-> 0]
    /\ yCalls = 0

\* YahooReader(ticker, isin); the call record keeps the arguments and the
\* lookup response when the lookup was called.
NewYahooReader ==
    /\ yPc = "new"
    /\ TipranksUnused
    /\ \E t \in TickerArgs, i \in IsinArgs, lr \in LookupResponses, br \in BundleResponses :
         LET tk == init_ticker(t, i, lr)
             sd == get_stored_data(br)
             e == IF tk.err # "none" THEN tk.err
                  ELSE IF sd.err # "none" THEN sd.err
                  ELSE init_quote_type(sd.data[1])
             fetch == IF tk.err # "none" THEN 0 ELSE sd.requests
         IN /\ ticker' = tk.ticker
            /\ yPc' = IF e = "none" THEN "done" ELSE "raised"
            /\ yLast' = [op |-> "__init__",
                         args |-> <<t, i, IF tk.lookups = 1 THEN Some(lr) ELSE None>>,
                         out |-> IF e = "none" THEN "ok" ELSE e,
                         val |-> None, nreq |-> tk.lookups + fetch]
            /\ yReq' = [lookup |-> yReq.lookup + tk.lookups, bundle |-> yReq.bundle + fetch]
            /\ fetched' = IF tk.err # "none" THEN None ELSE sd.data
            /\ stored_data' = IF tk.err # "none" THEN None ELSE sd.data
    /\ UNCHANGED <<isin_cache, yCalls>>
    /\ UNCHANGED <<secVars, tVars, hVars>>

\* One accessor call on the constructed reader: r is what the accessor
\* computed from the cache, nreq the requests the call itself issued, and
\* lookups those of them that went to the lookup endpoint.
YCall(op, args, r, nreq, lookups) ==
    /\ yPc = "done"
    /\ yCalls < MaxCalls
    /\ yCalls' = yCalls + 1
    /\ yLast' = [op |-> op, args |-> args, out |-> r.out, val |-> r.val,
                 nreq |-> nreq + stored_read(stored_data).requests]
    /\ yReq' = [lookup |-> yReq.lookup + lookups,
                 bundle |-> yReq.bundle + stored_read(stored_data).requests]
    /\ UNCHANGED <<yPc, ticker, fetched>>
    /\ UNCHANGED <<secVars, tVars, hVars>>

\* The cache as an accessor sees it.
Cache == stored_read(stored_data).data

Profile ==
    /\ YCall("profile", <<>>, profile(Cache), 0, 0)
    /\ UNCHANGED <<stored_data, isin_cache>>

Logo ==
    /\ \E body \in LogoBodies :
         YCall("logo", <<body>>, logo(Cache, body), logo(Cache, body).nreq, 0)
    /\ UNCHANGED <<stored_data, isin_cache>>

OwnershipBreakdown ==
    /\ YCall("ownership_breakdown", <<>>, ownership_breakdown(Cache), 0, 0)
    /\ stored_data' = Some(ownership_breakdown(Cache).stored)
    /\ UNCHANGED isin_cache

AnalystRecommendations ==
    /\ YCall("analyst_recommendations", <<>>, analyst_recommendations(Cache), 0, 0)
    /\ UNCHANGED <<stored_data, isin_cache>>

RecommendationTrend ==
    /\ YCall("recommendation_trend", <<>>, recommendation_trend(Cache), 0, 0)
    /\ UNCHANGED <<stored_data, isin_cache>>

InstitutionalOwnership ==
    /\ YCall("institutional_ownership", <<>>, institutional_ownership(Cache), 0, 0)
    /\ UNCHANGED <<stored_data, isin_cache>>

FundOwnership ==
    /\ YCall("fund_ownership", <<>>, fund_ownership(Cache), 0, 0)
    /\ UNCHANGED <<stored_data, isin_cache>>

InsiderOwnership ==
    /\ YCall("insider_ownership", <<>>, insider_ownership(Cache), 0, 0)
    /\ UNCHANGED <<stored_data, isin_cache>>

InsiderTrades ==
    /\ YCall("insider_trades", <<>>, insider_trades(Cache), 0, 0)
    /\ UNCHANGED <<stored_data, isin_cache>>

EsgScores ==
    /\ YCall("esg_scores", <<>>, esg_scores(Cache), 0, 0)
    /\ UNCHANGED <<stored_data, isin_cache>>

SecFilings ==
    /\ YCall("sec_filings", <<>>, sec_filings(Cache), 0, 0)
    /\ UNCHANGED <<stored_data, isin_cache>>

FundStatistics ==
    /\ YCall("fund_statistics", <<>>, fund_statistics(Cache), 0, 0)
    /\ UNCHANGED <<stored_data, isin_cache>>

Holdings ==
    /\ YCall("holdings", <<>>, holdings(Cache), 0, 0)
    /\ UNCHANGED <<stored_data, isin_cache>>

IncomeStatement ==
    /\ \E q \in BOOLEAN :
         YCall("income_statement", <<q>>, income_statement(Cache, q), 0, 0)
    /\ UNCHANGED <<stored_data, isin_cache>>

BalanceSheet ==
    /\ \E q \in BOOLEAN :
         YCall("balance_sheet", <<q>>, balance_sheet(Cache, q), 0, 0)
    /\ UNCHANGED <<stored_data, isin_cache>>

CashflowStatement ==
    /\ \E q \in BOOLEAN :
         YCall("cashflow_statement", <<q>>, cashflow_statement(Cache, q), 0, 0)
    /\ UNCHANGED <<stored_data, isin_cache>>

FinancialStatement ==
    /\ \E q \in BOOLEAN :
         YCall("financial_statement", <<q>>, financial_statement(Cache, q), 0, 0)
    /\ UNCHANGED <<stored_data, isin_cache>>

\* YahooReader.isin: on first access one request to the lookup endpoint, the
\* result kept in self._isin (which may hold None when the lookup finds
\* nothing); later accesses return the kept value without a request.
Isin ==
    /\ IF isin_cache = None
       THEN \E found \in {None, Some(<<"U", "1">>)} :
               /\ isin_cache' = Some(found)
               /\ YCall("isin", <<>>, [out |-> "ok", val |-> found], 1, 1)
       ELSE /\ UNCHANGED isin_cache
            /\ YCall("isin", <<>>, [out |-> "ok", val |-> isin_cache[1]], 0, 0)
    /\ UNCHANGED stored_data

\* The entries of an option chain: an expiration date (a Unix timestamp)
\* with its numbers of calls and puts.
OptionEntries == [expirationDate : {DaySeconds + HalfDay}, calls : 0..1, puts : {1}]

\* The responses of the options endpoint: without a chain, or with a chain
\* of no or one expiration date.
OptionChains == {None, Some(<<>>)} \cup {Some(<<e>>) : e \in OptionEntries}

\* A maturity: the Unix timestamp or the ISO text of a date.
TimestampValue(n) == [kind |-> "int", n |-> n, text |-> <<>>]

IsoValue(t) == [kind |-> "str", n |-> 0, text |-> t]

\* The value of date in the loop of options.
maturity(timestamps, expirationDate) ==
    IF timestamps THEN TimestampValue(expirationDate)
    ELSE IsoValue(iso_date_of_seconds(expirationDate))

\* The maturities of the calls (field "calls") or puts of a chain, in order.
RECURSIVE maturities(_, _, _)
maturities(chain, field, timestamps) ==
    IF Len(chain) = 0 THEN <<>>
    ELSE [k \in 1..Head(chain)[field] |-> maturity(timestamps, Head(chain).expirationDate)]
         \o maturities(Tail(chain), field, timestamps)

\* YahooReader.options from the response on: the maturity of each returned
\* call and put; TickerError when the response holds no option chain.
options(chain, timestamps) ==
    IF chain = None THEN [out |-> "TickerError", val |-> None]
    ELSE [out |-> "ok",
          val |-> Some([calls |-> maturities(chain[1], "calls", timestamps),
                        puts |-> maturities(chain[1], "puts", timestamps)])]

\* YahooReader.options: one request per call.
Options ==
    /\ \E chain \in OptionChains, timestamps \in BOOLEAN :
         YCall("options", <<timestamps>>, options(chain, timestamps), 1, 0)
    /\ UNCHANGED <<stored_data, isin_cache>>

\* A class-level accessor of YahooReader (crumb, currencies): one request,
\* no instance needed.
YClassCall(op) ==
    /\ yCalls < MaxCalls
    /\ TipranksUnused
    /\ yCalls' = yCalls + 1
    /\ yLast' = [op |-> op, args |-> <<>>, out |-> "ok", val |-> None, nreq |-> 1]
    /\ UNCHANGED <<yPc, ticker, stored_data, fetched, isin_cache, yReq>>
    /\ UNCHANGED <<secVars, tVars, hVars>>

Crumb == YClassCall("crumb")

Currencies == YClassCall("currencies")

----------------------------------------------------------------------------
(* yahoo.py: the data frame of historical_data.  The method reads nothing   *)
(* of the instance but the ticker, which only enters the request URL, so    *)
(* the frame is a function of the arguments and of the chart response.  An  *)
(* index value (a date, a datetime or a timestamp) is a number: a day       *)
(* number, or seconds; a datetime that carries the time zone keeps the      *)
(* number of its wall-clock time.  A frame is the sequence of its rows in   *)
(* index order; a dividend amount or split ratio is modelled by the         *)
(* timestamp of its event, so that every event can be told apart.           *)

MaxTime == 4

\* A str given for start or end is held as the sequence of its code points
\* (the k-th element is ord() of the k-th character), because
\* date.fromisoformat reads the UTF-8 encoding of the text.  ord() of the
\* characters that an ISO 8601 date is written with:
ord(c) == IF c = "-" THEN 45 ELSE IF c = "W" THEN 87 ELSE 48 + DigitVal(c)

code_points(s) == [k \in 1..Len(s) |-> ord(s[k])]

\* Values given for start and end: ISO 8601 texts of a date in the extended
\* format, the basic format and as a week date.
IsoDateTexts == {
    code_points(<<"1", "9", "7", "0", "-", "0", "1", "-", "0", "2">>),
    code_points(<<"1", "9", "7", "2", "-", "0", "3", "-", "0", "1">>),
    code_points(<<"1", "9", "7", "0", "0", "1", "0", "2">>),
    code_points(<<"1", "9", "7", "0", "-", "W", "0", "1", "-", "5">>) }

\* And texts that are not one: 1970-1-2, and 19700102 with a character
\* outside ASCII after it, U+00E9 (ten bytes of UTF-8 in all) or U+20AC
\* (eleven).
IsoTexts ==
    IsoDateTexts \cup {
        code_points(<<"1", "9", "7", "0", "-", "1", "-", "2">>),
        code_points(<<"1", "9", "7", "0", "0", "1", "0", "2">>) \o <<233>>,
        code_points(<<"1", "9", "7", "0", "0", "1", "0", "2">>) \o <<8364>> }

Dates == {[y |-> 1970, m |-> 1, d |-> 2], [y |-> 1972, m |-> 3, d |-> 1]}

\* Instants: naive ones (one of them far from 1970, a microsecond before a
\* whole second), and one that carries a time zone.
Datetimes == {
    [y |-> 1970, m |-> 1, d |-> 2, h |-> 1, mi |-> 2, s |-> 3, us |-> 0, aware |-> FALSE],
    [y |-> 1970, m |-> 1, d |-> 2, h |-> 1, mi |-> 2, s |-> 3, us |-> 500000, aware |-> FALSE],
    [y |-> 2600, m |-> 1, d |-> 1, h |-> 0, mi |-> 0, s |-> 0, us |-> 999999, aware |-> FALSE],
    [y |-> 1970, m |-> 1, d |-> 2, h |-> 0, mi |-> 0, s |-> 0, us |-> 0, aware |-> TRUE] }

\* An argument value: its type, and the text, the calendar fields or the
\* number it holds (the fields its type does not use are blank).
NoFields ==
    [y |-> 0, m |-> 0, d |-> 0, h |-> 0, mi |-> 0, s |-> 0, us |-> 0, aware |-> FALSE]

StrArg(t) == [kind |-> "str", text |-> t, v |-> NoFields, n |-> 0]

DateArg(x) ==
    [kind |-> "date", text |-> <<>>,
     v |-> [NoFields EXCEPT !.y = x.y, !.m = x.m, !.d = x.d], n |-> 0]

DatetimeArg(x) == [kind |-> "datetime", text |-> <<>>, v |-> x, n |-> 0]

IntArg(n) == [kind |-> "int", text |-> <<>>, v |-> NoFields, n |-> n]

BoundArgs ==
    {StrArg(t) : t \in IsoTexts} \cup {DateArg(x) : x \in Dates}
    \cup {DatetimeArg(x) : x \in Datetimes} \cup {IntArg(n) : n \in {0, 90123}}

\* The argument was not given.
Absent == [kind |-> "absent", text |-> <<>>, v |-> NoFields, n |-> 0]

\* The default of start: dt.datetime(1900, 1, 1).
DefaultStart ==
    DatetimeArg([y |-> 1900, m |-> 1, d |-> 1, h |-> 0, mi |-> 0, s |-> 0, us |-> 0,
                 aware |-> FALSE])

\* The instant at which the module was loaded, and the instants at which a
\* call is made.
ModuleLoaded ==
    [y |-> 1970, m |-> 1, d |-> 3, h |-> 0, mi |-> 0, s |-> 0, us |-> 0, aware |-> FALSE]

CallInstants ==
    {ModuleLoaded, [ModuleLoaded EXCEPT !.h = 1], [ModuleLoaded EXCEPT !.d = 4]}

\* The default of end: dt.datetime.today(), evaluated once, when the def
\* statement runs at module load; now is the instant of the call.
DefaultEnd(now) == DatetimeArg(ModuleLoaded)

\* str.encode("utf-8") of one character: a code point below 128 is its own
\* byte, and every byte of a longer encoding is 128 or more.
utf8_char(c) ==
    IF c < 128 THEN <<c>>
    ELSE IF c < 2048 THEN <<192 + (c \div 64), 128 + (c % 64)>>
    ELSE IF c < 65536
    THEN <<224 + (c \div 4096), 128 + ((c \div 64) % 64), 128 + (c % 64)>>
    ELSE <<240 + (c \div 262144), 128 + ((c \div 4096) % 64),
           128 + ((c \div 64) % 64), 128 + (c % 64)>>

\* The UTF-8 encoding of a text, one element for each byte.
RECURSIVE utf8(_)
utf8(t) == IF t = <<>> THEN <<>> ELSE utf8_char(Head(t)) \o utf8(Tail(t))

\* The n bytes of t from position i on are there and are ASCII digits.
DigitsAt(t, i, n) == i + n - 1 <= Len(t) /\ \A k \in i..(i + n - 1) : t[k] \in 48..57

\* The number that the n digits of t from position i on spell.
RECURSIVE digits_value(_, _, _)
digits_value(t, i, n) ==
    IF n = 0 THEN 0 ELSE 10 * digits_value(t, i, n - 1) + t[i + n - 1] - 48

\* The ordinal of the Monday of ISO week 1 of a year: the week that holds the
\* year's first Thursday.
iso_week1_monday(y) ==
    LET first == toordinal(y, 1, 1)
        first_weekday == (first + 6) % 7
    IN IF first_weekday > 3 THEN first - first_weekday + 7 ELSE first - first_weekday

\* The ordinal of day 1..7 of ISO week 1..53 of a year, 0 when there is no
\* such date: week 53 exists in the years that start on a Thursday and in
\* the leap years that start on a Wednesday, and the date has to lie in the
\* years 1..9999.
iso_to_ordinal(y, week, day) ==
    IF week \notin 1..53 \/ day \notin 1..7 THEN 0
    ELSE IF week = 53 /\ (toordinal(y, 1, 1) + 6) % 7 # 3
                      /\ ~((toordinal(y, 1, 1) + 6) % 7 = 2 /\ IsLeap(y)) THEN 0
    ELSE IF iso_week1_monday(y) + (week - 1) * 7 + day - 1 \notin 1..toordinal(9999, 12, 31)
    THEN 0
    ELSE iso_week1_monday(y) + (week - 1) * 7 + day - 1

\* The ordinal of a calendar date, 0 when there is no such date.
ymd_to_ordinal(y, m, d) ==
    IF y \in 1..9999 /\ m \in 1..12 /\ d \in 1..DaysInMonth(y, m)
    THEN toordinal(y, m, d) ELSE 0

\* The fields after the year of an ISO 8601 date in the bytes t; b is 1 when
\* "-" (45) follows the year (the extended format, whose fields are all
\* separated by "-") and 0 in the basic format; 87 is "W".  After a complete
\* date the rest of the bytes is not looked at.
iso_fields(t, b) ==
    IF t[5 + b] = 87
    THEN IF ~DigitsAt(t, 6 + b, 2) THEN 0
         ELSE IF Len(t) < 8 + b
         THEN iso_to_ordinal(digits_value(t, 1, 4), digits_value(t, 6 + b, 2), 1)
         ELSE IF (b = 1 /\ t[9] # 45) \/ ~DigitsAt(t, 8 + 2 * b, 1) THEN 0
         ELSE iso_to_ordinal(digits_value(t, 1, 4), digits_value(t, 6 + b, 2),
                             digits_value(t, 8 + 2 * b, 1))
    ELSE IF ~DigitsAt(t, 5 + b, 2) THEN 0
    ELSE IF b = 1 /\ (Len(t) < 8 \/ t[8] # 45) THEN 0
    ELSE IF ~DigitsAt(t, 7 + 2 * b, 2) THEN 0
    ELSE ymd_to_ordinal(digits_value(t, 1, 4), digits_value(t, 5 + b, 2),
                        digits_value(t, 7 + 2 * b, 2))

\* date.fromisoformat(text).toordinal(), 0 for ValueError, as interpreters
\* from Python 3.11 on compute it: the text is encoded as UTF-8, which fails
\* for a surrogate code point (55296..57343), and the bytes have to be 7, 8
\* or 10 that start with one of the forms YYYY-MM-DD, YYYYMMDD, YYYY-Www,
\* YYYYWww, YYYY-Www-D, YYYYWwwD.
fromisoformat(t) ==
    LET b == utf8(t)
    IN IF \E k \in 1..Len(t) : t[k] \in 55296..57343 THEN 0
       ELSE IF Len(b) \notin {7, 8, 10} \/ ~DigitsAt(b, 1, 4) THEN 0
       ELSE iso_fields(b, IF b[5] = 45 THEN 1 ELSE 0)

IsIsoDate(t) == fromisoformat(t) # 0

\* A number of seconds, held as whole days and seconds of the day
\* (days * 86400 + secs), so that instants far from 1970 stay in range.
Seconds(days, secs) == [days |-> days, secs |-> secs]

SecondsOf(n) == Seconds(n \div DaySeconds, n % DaySeconds)

\* 2^(34 + k) seconds (2^34 = 198841 * 86400 + 6784), for k in 0..3.
Pow2Seconds(k) == Seconds(198841 * 2 ^ k, 6784 * 2 ^ k)

\* The microseconds within which the double nearest to a number of seconds
\* of whole part mag is the neighbouring whole number: doubles from 2^(34+k)
\* on are 2^(k-18) apart, half of which is more than 2^(k+1) - 1 and less
\* than 2^(k+1) microseconds; below 2^34 half the spacing is less than one
\* microsecond.
float_reach(mag) ==
    IF mag.days > Pow2Seconds(3).days
       \/ (mag.days = Pow2Seconds(3).days /\ mag.secs >= Pow2Seconds(3).secs) THEN 15
    ELSE IF mag.days > Pow2Seconds(2).days
       \/ (mag.days = Pow2Seconds(2).days /\ mag.secs >= Pow2Seconds(2).secs) THEN 7
    ELSE IF mag.days > Pow2Seconds(1).days
       \/ (mag.days = Pow2Seconds(1).days /\ mag.secs >= Pow2Seconds(1).secs) THEN 3
    ELSE IF mag.days > Pow2Seconds(0).days
       \/ (mag.days = Pow2Seconds(0).days /\ mag.secs >= Pow2Seconds(0).secs) THEN 1
    ELSE 0

\* The second after days, secs.
next_second(days, secs) ==
    IF secs + 1 = DaySeconds THEN Seconds(days + 1, 0) ELSE Seconds(days, secs + 1)

\* int(delta.total_seconds()) for a difference of days, seconds and
\* microseconds: total_seconds() is the double nearest to the exact number
\* of seconds, and int() truncates that double toward zero.  Far from 1970
\* the nearest double of an instant within float_reach microseconds of a
\* whole second is that whole second.
whole_seconds(days, secs, us) ==
    IF us = 0 THEN Seconds(days, secs)
    ELSE IF days >= 0
    THEN (IF 1000000 - us <= float_reach(Seconds(days, secs))
          THEN next_second(days, secs) ELSE Seconds(days, secs))
    ELSE (IF us <= float_reach(Seconds(-days - 1, DaySeconds - secs - 1))
          THEN Seconds(days, secs) ELSE next_second(days, secs))

\* The isinstance chain applied to start and to end: str, then datetime,
\* then date; anything else is left as it is.  The difference of an aware
\* and a naive datetime raises TypeError.
to_unix(a) ==
    CASE a.kind = "str" ->
           IF ~IsIsoDate(a.text) THEN [err |-> "ValueError"]
           ELSE [err |-> "none",
                 val |-> Seconds(fromisoformat(a.text) - toordinal(1970, 1, 1), 0)]
      [] a.kind = "datetime" ->
           IF a.v.aware THEN [err |-> "TypeError"]
           ELSE [err |-> "none",
                 val |-> whole_seconds(EpochDays(a.v.y, a.v.m, a.v.d),
                                       a.v.h * 3600 + a.v.mi * 60 + a.v.s, a.v.us)]
      [] a.kind = "date" ->
           [err |-> "none", val |-> Seconds(EpochDays(a.v.y, a.v.m, a.v.d), 0)]
      [] OTHER -> [err |-> "none", val |-> SecondsOf(a.n)]

\* The timestamps of daily bars and of events: the starts of the days
\* 1..MaxTime.
Times == {d * DaySeconds : d \in 1..MaxTime}

\* The elements of a set of numbers in increasing order (sort_index).
SortedSeq(S) ==
    [k \in 1..Cardinality(S) |-> CHOOSE t \in S : Cardinality({u \in S : u < t}) = k - 1]

\* The "timestamp" lists of a chart response: one bar per day, and possibly
\* a last bar that repeats the timestamp before it or lies later on the same
\* day (the running quote).
TimestampLists ==
    UNION { {SortedSeq(S),
             SortedSeq(S) \o <<SortedSeq(S)[Cardinality(S)]>>,
             SortedSeq(S) \o <<SortedSeq(S)[Cardinality(S)] + HalfDay>>} :
                S \in SUBSET Times \ {{}} }
        \cup {<<>>}

\* meta["gmtoffset"]
GmtOffsets == {0, HalfDay}

\* meta["timezone"], by what tz_localize makes of it: whether the name is
\* one of a known time zone, the wall-clock times (seconds since 1970-01-01
\* 00:00:00 on the zone's clock) that the zone's clock skips, and those it
\* shows twice.
PlainZone == [known |-> TRUE, skipped |-> {}, repeated |-> {}]

Zones == {
    PlainZone,
    [known |-> FALSE, skipped |-> {}, repeated |-> {}],
    [known |-> TRUE, skipped |-> {2 * DaySeconds}, repeated |-> {}],
    [known |-> TRUE, skipped |-> {}, repeated |-> {2 * DaySeconds}] }

\* The chart responses: price timestamps, dividend dates, split dates, the
\* exchange's offset and its time zone.  result tells what
\* data["chart"]["result"] holds: the list with the series ("full"), null, or
\* a series that lacks the "timestamp" key.
EventFreeCharts ==
    [ts : TimestampLists, dividends : {{}}, splits : {{}}, gmtoffset : GmtOffsets,
     timezone : {PlainZone}, result : {"full"}]

Charts == [ts : TimestampLists, dividends : SUBSET Times, splits : SUBSET Times,
           gmtoffset : {0}, timezone : {PlainZone}, result : {"full"}]
          \cup EventFreeCharts

\* The responses to a request of hourly bars: without events or with a
\* dividend and a split, in any of the time zones.
IntradayCharts ==
    [ts : TimestampLists, dividends : {{}, {DaySeconds}},
     splits : {{}, {2 * DaySeconds}}, gmtoffset : GmtOffsets,
     timezone : Zones, result : {"full"}]

PlainChart ==
    [ts |-> <<DaySeconds, 2 * DaySeconds>>, dividends |-> {}, splits |-> {}, gmtoffset |-> 0,
     timezone |-> PlainZone, result |-> "full"]

\* The responses without a price series.
SeriesFreeCharts ==
    {[PlainChart EXCEPT !.ts = <<>>, !.result = r] : r \in {"null", "no_timestamp"}}

\* The frequencies whose bars are dated by the day, and one whose bars are
\* not.
Frequencies == {"1d", "1wk", "1mo", "3mo"}

IntradayFrequencies == {"1h"}

\* The index value of a timestamp: the timestamp itself when timestamps is
\* True; else at the frequencies of a day and more the date
\* dt.date(1970,1,1) + dt.timedelta(seconds = ts + tz_offset), a day number,
\* and at every other frequency the datetime
\* dt.datetime(1970,1,1) + dt.timedelta(seconds = ts), held as the seconds
\* from 1970-01-01 00:00:00 to it (the offset is not added).
index_of(timestamps, frequency, tz_offset, t) ==
    IF timestamps THEN t
    ELSE IF frequency \in Frequencies THEN (t + tz_offset) \div DaySeconds
    ELSE t

\* index.tz_localize(timezone) on the index made of a list of datetimes: an
\* empty list makes a plain Index, which has no tz_localize (AttributeError);
\* the name of an unknown zone raises before the times are looked at; then
\* the first time that the zone's clock shows twice or skips raises.
tz_localize(index, zone) ==
    LET odd == {k \in 1..Len(index) : index[k] \in zone.repeated \cup zone.skipped}
        first == CHOOSE k \in odd : \A j \in odd : k <= j
    IN IF Len(index) = 0 THEN "AttributeError"
       ELSE IF ~zone.known THEN "UnknownTimeZoneError"
       ELSE IF odd = {} THEN "none"
       ELSE IF index[first] \in zone.repeated THEN "AmbiguousTimeError"
       ELSE "NonExistentTimeError"

\* if prices.index[-1] == prices.index[-2]: prices = prices[:-1]
\* (IndexError when the index has fewer than two entries).
drop_trailing_duplicate(df) ==
    IF Len(df) < 2 THEN [err |-> "IndexError", df |-> df]
    ELSE IF df[Len(df)].index = df[Len(df) - 1].index
    THEN [err |-> "none", df |-> SubSeq(df, 1, Len(df) - 1)]
    ELSE [err |-> "none", df |-> df]

\* The prices frame: one row per timestamp, with a close; bar is the
\* position of the bar in the response, which stands for its prices.
price_rows(ts, timestamps, frequency, tz_offset) ==
    [k \in 1..Len(ts) |->
        [index |-> index_of(timestamps, frequency, tz_offset, ts[k]), bar |-> k, close |-> TRUE,
         dividends |-> None, splits |-> None]]

\* The events frame: the index value and the amount (told by the event's
\* timestamp) of each event.
event_rows(events, timestamps, frequency, tz_offset) ==
    {[index |-> index_of(timestamps, frequency, tz_offset, e), val |-> e] : e \in events}

\* pd.concat([df, events], axis=1).sort_index(): the outer join on the index;
\* events is the events frame, col the column it fills.
concat_sorted(df, events, col) ==
    LET idx == SortedSeq({df[k].index : k \in 1..Len(df)} \cup {e.index : e \in events})
        row(t) == IF \E k \in 1..Len(df) : df[k].index = t
                  THEN df[CHOOSE k \in 1..Len(df) : df[k].index = t]
                  ELSE [index |-> t, bar |-> 0, close |-> FALSE,
                        dividends |-> None, splits |-> None]
        at(t) == IF \E e \in events : e.index = t
                 THEN Some((CHOOSE e \in events : e.index = t).val)
                 ELSE None
    IN [k \in 1..Len(idx) |-> [row(idx[k]) EXCEPT ![col] = at(idx[k])]]

\* The fill loop from position i on (1-based; the code's i runs over
\* range(len - 1)): the conditions read the copy of the column taken before
\* the loop and the close of the frame, the assignment writes the frame.
RECURSIVE fill_from(_, _, _, _)
fill_from(df, copy, col, i) ==
    IF i > Len(df) - 1 THEN df
    ELSE fill_from(
            IF copy[i] # None /\ copy[i + 1] = None /\ ~df[i].close
            THEN [df EXCEPT ![i + 1][col] = df[i][col]]
            ELSE df,
            copy, col, i + 1)

\* The block run at weekly, monthly and quarterly frequency after each merge:
\* the fill loop, then df = df[df["close"].notna()].
fill_and_filter(df, col) ==
    SelectSeq(fill_from(df, [k \in 1..Len(df) |-> df[k][col]], col, 1),
              LAMBDA r : r.close)

\* YahooReader.historical_data from the chart response on: the rows of the
\* returned frame, the name of its index and whether its index values carry
\* the time zone, or the exception raised.  data["chart"]["result"][0] raises
\* TypeError on a null result, [...]["timestamp"] KeyError on a series
\* without that key.  tz_aware is looked at only when the index holds
\* datetimes: the indexes of prices, dividends and splits are then localized
\* in this order (the events in the order of their dates), and the first
\* exception is raised.
historical_data(frequency, timestamps, tz_aware, chart) ==
    LET tz_offset == chart.gmtoffset
        datetimes == ~timestamps /\ frequency \notin Frequencies
        dropped == drop_trailing_duplicate(
                       price_rows(chart.ts, timestamps, frequency, tz_offset))
        fill == frequency \in {"1wk", "1mo", "3mo"}
        df1 == concat_sorted(dropped.df,
                             event_rows(chart.dividends, timestamps, frequency, tz_offset),
                             "dividends")
        df2 == IF fill THEN fill_and_filter(df1, "dividends") ELSE df1
        df3 == concat_sorted(df2,
                             event_rows(chart.splits, timestamps, frequency, tz_offset),
                             "splits")
        df4 == IF fill THEN fill_and_filter(df3, "splits") ELSE df3
        localized == <<tz_localize(chart.ts, chart.timezone),
                       tz_localize(SortedSeq(chart.dividends), chart.timezone),
                       tz_localize(SortedSeq(chart.splits), chart.timezone)>>
        raising == {k \in 1..3 : localized[k] # "none"}
        failed(e) == [out |-> e, rows |-> <<>>, index_name |-> "", aware |-> FALSE]
    IN IF chart.result = "null" THEN failed("TypeError")
       ELSE IF chart.result = "no_timestamp" THEN failed("KeyError")
       ELSE IF datetimes /\ tz_aware /\ raising # {}
       THEN failed(localized[CHOOSE k \in raising : \A j \in raising : k <= j])
       ELSE IF dropped.err # "none" THEN failed(dropped.err)
       ELSE [out |-> "ok", rows |-> df4,
             index_name |-> IF timestamps THEN "timestamps"
                            ELSE IF frequency \in Frequencies THEN "date"
                            ELSE "datetime",
             aware |-> datetimes /\ tz_aware]

\* YahooReader.historical_data, the whole call c: start and end are
\* normalised first, and a bound that cannot be converted raises before
\* the request; otherwise one request is sent with the two bounds and the
\* frame is built from the response.
historical_call(c) ==
    LET start == to_unix(IF c.start = Absent THEN DefaultStart ELSE c.start)
        end == to_unix(IF c.end = Absent THEN DefaultEnd(c.now) ELSE c.end)
        r == historical_data(c.frequency, c.timestamps, c.tz_aware, c.chart)
    IN IF start.err # "none"
       THEN [call |-> c, period1 |-> None, period2 |-> None,
             out |-> start.err, rows |-> <<>>, index_name |-> "", aware |-> FALSE,
             requests |-> 0]
       ELSE IF end.err # "none"
       THEN [call |-> c, period1 |-> None, period2 |-> None,
             out |-> end.err, rows |-> <<>>, index_name |-> "", aware |-> FALSE,
             requests |-> 0]
       ELSE [call |-> c, period1 |-> Some(start.val), period2 |-> Some(end.val),
             out |-> r.out, rows |-> r.rows, index_name |-> r.index_name,
             aware |-> r.aware, requests |-> 1]

\* The calls: the chart response varies under the default bounds (with a
\* timestamp index over the responses without events), or the bounds and the
\* instant of the call vary over one chart response, or the response holds
\* no series, or hourly bars are asked for, with and without tz_aware, or
\* tz_aware is set at a frequency of a day and more.
HistoryCalls ==
    [frequency : Frequencies, timestamps : {FALSE}, tz_aware : {FALSE},
     start : {Absent}, end : {Absent}, now : {ModuleLoaded}, chart : Charts]
    \cup
    [frequency : Frequencies, timestamps : {TRUE}, tz_aware : {FALSE},
     start : {Absent}, end : {Absent}, now : {ModuleLoaded}, chart : EventFreeCharts]
    \cup
    [frequency : {"1d"}, timestamps : {FALSE}, tz_aware : {FALSE},
     start : BoundArgs \cup {Absent}, end : BoundArgs \cup {Absent},
     now : CallInstants, chart : {PlainChart}]
    \cup
    [frequency : {"1d"}, timestamps : {FALSE}, tz_aware : {FALSE},
     start : {Absent}, end : {Absent}, now : {ModuleLoaded}, chart : SeriesFreeCharts]
    \cup
    [frequency : IntradayFrequencies, timestamps : BOOLEAN, tz_aware : BOOLEAN,
     start : {Absent}, end : {Absent}, now : {ModuleLoaded}, chart : IntradayCharts]
    \cup
    [frequency : Frequencies, timestamps : {FALSE}, tz_aware : {TRUE},
     start : {Absent}, end : {Absent}, now : {ModuleLoaded}, chart : {PlainChart}]

HInit ==
    hist = [call |-> [frequency |-> "none"], period1 |-> None, period2 |-> None,
            out |-> "none", rows |-> <<>>, index_name |-> "", aware |-> FALSE,
            requests |-> 0]

\* One call of historical_data.  Calls do not depend on each other, so a
\* behaviour follows one.
HistoricalDataFrame ==
    /\ hist.out = "none"
    /\ \E c \in HistoryCalls : hist' = historical_call(c)
    /\ UNCHANGED <<secVars, yVars, tVars>>

\* The calls made on a constructed reader: one bound varies while the other
\* is left out, or the response varies (two bars, one bar, no series) under
\* the default bounds, or hourly bars are asked for with tz_aware.
ReaderHistoryCalls ==
    [frequency : {"1d"}, timestamps : {FALSE}, tz_aware : {FALSE},
     start : BoundArgs \cup {Absent}, end : {Absent}, now : {ModuleLoaded},
     chart : {PlainChart}]
    \cup
    [frequency : {"1d"}, timestamps : {FALSE}, tz_aware : {FALSE},
     start : {Absent}, end : BoundArgs, now : {ModuleLoaded}, chart : {PlainChart}]
    \cup
    [frequency : {"1d"}, timestamps : {FALSE}, tz_aware : {FALSE},
     start : {Absent}, end : {Absent}, now : {ModuleLoaded},
     chart : SeriesFreeCharts \cup {[PlainChart EXCEPT !.ts = <<DaySeconds>>]}]
    \cup
    [frequency : IntradayFrequencies, timestamps : {FALSE}, tz_aware : {TRUE},
     start : {Absent}, end : {Absent}, now : {ModuleLoaded},
     chart : {PlainChart,
              [PlainChart EXCEPT !.dividends = {DaySeconds}, !.splits = {DaySeconds}]}]

\* What these calls come to: the exception raised or "ok", and the number of
\* requests sent.
ReaderHistoryOutcomes ==
    {[out |-> historical_call(c).out, requests |-> historical_call(c).requests] :
        c \in ReaderHistoryCalls}

\* YahooReader.historical_data on a constructed reader: no request when a
\* bound cannot be converted, else one chart request, whatever the response
\* then leads to.
HistoricalData ==
    /\ \E o \in ReaderHistoryOutcomes :
         YCall("historical_data", <<>>, [out |-> o.out, val |-> None], o.requests, 0)
    /\ UNCHANGED <<stored_data, isin_cache>>

----------------------------------------------------------------------------
(* tipranks.py *)

MaxEntries == 2

\* Values of a sortable field: names in alphabetical order and numbers are
\* both modelled by their rank.
Ranks == {1, 2}

\* Entries of the three sorted lists of the getData payload, with the fields
\* the sort keys read: a field that is read directly (name, priceTarget,
\* amount, value) and one that passes through round() (originalStars,
\* stars).  An entry has its fields at one rank, or one field null.
ExpertItems ==
    {[name |-> Some(r), priceTarget |-> Some(r), originalStars |-> Some(r),
      includedInConsensus |-> c] : r \in Ranks, c \in BOOLEAN}
    \cup {[name |-> None, priceTarget |-> Some(1), originalStars |-> Some(1),
           includedInConsensus |-> TRUE],
          [name |-> Some(1), priceTarget |-> None, originalStars |-> Some(1),
           includedInConsensus |-> TRUE],
          [name |-> Some(1), priceTarget |-> Some(1), originalStars |-> None,
           includedInConsensus |-> TRUE]}

InsiderItems ==
    {[name |-> Some(r), amount |-> Some(r)] : r \in Ranks}
    \cup {[name |-> None, amount |-> Some(1)], [name |-> Some(1), amount |-> None]}

HoldingItems ==
    {[managerName |-> Some(r), value |-> Some(r), stars |-> Some(r)] : r \in Ranks}
    \cup {[managerName |-> None, value |-> Some(1), stars |-> Some(1)],
          [managerName |-> Some(1), value |-> None, stars |-> Some(1)],
          [managerName |-> Some(1), value |-> Some(1), stars |-> None]}

\* The analyst counts (buy, hold, sell) of a consensus entry.
CountTriples == {<<0, 0, 0>>, <<2, 0, 1>>}

\* Entries of similarStocks: the counts are in consensusData[0].
PeerItems ==
    {[consensusData |-> <<[nB |-> c[1], nH |-> c[2], nS |-> c[3]]>>] : c \in CountTriples}

\* The day of an entry: its date as a count of days since 1970-01-01.
EntryDays == {0, 1}

\* Entries of consensusOverTime and of bestConsensusOverTime: non-zero
\* counts on either day, or zero counts.
TrendItems ==
    {[date |-> d, buy |-> 2, hold |-> 0, sell |-> 1] : d \in EntryDays}
    \cup {[date |-> 0, buy |-> 0, hold |-> 0, sell |-> 0]}

\* Entries of consensuses: a star rating and a day with non-zero counts, or
\* zero counts.
ConsensusItems ==
    {[mStars |-> 0, d |-> d, nB |-> 2, nH |-> 0, nS |-> 1] : d \in EntryDays}
    \cup {[mStars |-> 5, d |-> 0, nB |-> 2, nH |-> 0, nS |-> 1],
          [mStars |-> 5, d |-> 1, nB |-> 0, nH |-> 0, nS |-> 0]}

\* The lists of a payload that are left empty.
NoSortedLists == [experts |-> <<>>, insiders |-> <<>>, institutionalHoldings |-> <<>>]

NoConsensusLists ==
    [similarStocks |-> <<>>, consensusOverTime |-> <<>>,
     bestConsensusOverTime |-> <<>>, consensuses |-> <<>>]

\* Payloads with entries in the three sorted lists only.
SortedListPayloads ==
    UNION { UNION { UNION {
        { [experts |-> e, insiders |-> i, institutionalHoldings |-> h] @@ NoConsensusLists :
            e \in [1..k1 -> ExpertItems],
            i \in [1..k2 -> InsiderItems],
            h \in [1..k3 -> HoldingItems] }
        : k3 \in 0..(MaxEntries - k1 - k2) }
        : k2 \in 0..(MaxEntries - k1) }
        : k1 \in 0..MaxEntries }

\* Payloads with entries in one of the consensus lists only (the two lists
\* of recommendation_trend count as one).
ConsensusPayloads ==
    {[NoConsensusLists EXCEPT !.similarStocks = l] @@ NoSortedLists :
        l \in SeqsUpTo(PeerItems, MaxEntries)}
    \cup UNION { UNION {
        {[NoConsensusLists EXCEPT !.consensusOverTime = a, !.bestConsensusOverTime = b]
            @@ NoSortedLists :
            a \in [1..k1 -> TrendItems], b \in [1..k2 -> TrendItems]}
        : k2 \in 0..(MaxEntries - k1) }
        : k1 \in 0..MaxEntries }
    \cup {[NoConsensusLists EXCEPT !.consensuses = l] @@ NoSortedLists :
        l \in SeqsUpTo(ConsensusItems, MaxEntries)}

\* The getData payloads: at most MaxEntries list entries in all.  The other
\* keys of the payload are always present.
TipPayloads == SortedListPayloads \cup ConsensusPayloads

\* What one request to the getData endpoint comes to: the decoded JSON
\* payload, or the exception that requests.get(...) or .json() raises.
RatingsResponses ==
    {[err |-> "none", body |-> Some(p)] : p \in TipPayloads}
    \cup {[err |-> e, body |-> None] : e \in {"ConnectionError", "JSONDecodeError"}}

\* _get_ratings_data without the hasattr guard: a request on every call.
get_ratings_data_uncached(cache, response) ==
    [err |-> response.err, data |-> response.body, requests |-> 1]

\* TipranksReader._get_ratings_data: the cached payload, or one request whose
\* payload is stored; a request that raises stores nothing.  data is the
\* attribute after the call (None while it is unset), err the exception.
get_ratings_data(cache, response) ==
    IF cache # None THEN [err |-> "none", data |-> cache, requests |-> 0]
    ELSE [err |-> response.err, data |-> response.body, requests |-> 1]

\* The requests issued by n successive calls of _get_ratings_data, of which
\* a raising one is the last.
RECURSIVE ratings_requests(_, _, _)
ratings_requests(cache, response, n) ==
    IF n = 0 THEN 0
    ELSE get_ratings_data(cache, response).requests
            + (IF get_ratings_data(cache, response).err # "none" THEN 0
               ELSE ratings_requests(get_ratings_data(cache, response).data, response, n - 1))

\* The sort key (x is None, x) under Python's tuple order; False < True, and
\* two keys with None compare equal.
KeyLess(a, b) ==
    \/ a # None /\ b = None
    \/ a # None /\ b # None /\ a[1] < b[1]

\* sorted(...) with the reverse argument left out.
sorted_ascending(data, keys, reverse) ==
    LET n == Len(data)
        pos(i) == 1 + Cardinality({j \in 1..n :
                        j # i /\ (KeyLess(keys[j], keys[i])
                                    \/ (~KeyLess(keys[i], keys[j]) /\ j < i))})
    IN [p \in 1..n |-> data[CHOOSE i \in 1..n : pos(i) = p]]

\* sorted(data, key=lambda x: (key(x) is None, key(x)), reverse=reverse),
\* keys[i] being key(data[i]): a stable sort, equal keys keeping their input
\* order also when reversed.
sorted(data, keys, reverse) ==
    LET n == Len(data)
        Before(i, j) == IF reverse THEN KeyLess(keys[j], keys[i])
                        ELSE KeyLess(keys[i], keys[j])
        pos(i) == 1 + Cardinality({j \in 1..n :
                        j # i /\ (Before(j, i) \/ (~Before(i, j) /\ j < i))})
    IN [p \in 1..n |-> data[CHOOSE i \in 1..n : pos(i) = p]]

\* The sort keys of a list: the field f of every entry.
KeysOf(data, f) == [k \in 1..Len(data) |-> data[k][f]]

CoveringSortVariables == {
    "name", "firm", "stock_success_rate", "average_rating_return_stock",
    "total_recommendations_stock", "positive_recommendations_stock",
    "price_target", "rank", "successful_recommendations",
    "total_recommendations", "average_rating_return", "stars" }

\* The reshaped entries of covering_analysts before the sort: the list
\* comprehension, then the include_retail filter.
covering_entries(payload, include_retail) ==
    LET data == [k \in 1..Len(payload.experts) |->
                    [name |-> payload.experts[k].name,
                     consensus_analyst |-> payload.experts[k].includedInConsensus,
                     ratings |-> <<[price_target |-> payload.experts[k].priceTarget]>>,
                     analyst_ranking |-> [stars |-> payload.experts[k].originalStars[1]]]]
    IN IF include_retail THEN data
       ELSE SelectSeq(data, LAMBDA x : x.consensus_analyst)

\* TipranksReader.covering_analysts on what _get_ratings_data gives; reads
\* counts the calls of _get_ratings_data made before the outcome.  An
\* exception of _get_ratings_data leaves the accessor as it is.
covering_analysts(ratings, include_retail, sorted_by) ==
    IF sorted_by \notin CoveringSortVariables
    THEN [out |-> "ValueError", val |-> None, reads |-> 0]
    ELSE IF ratings.err # "none" THEN [out |-> ratings.err, val |-> None, reads |-> 1]
    ELSE IF \E k \in 1..Len(ratings.data[1].experts) :
                ratings.data[1].experts[k].originalStars = None
    THEN [out |-> "TypeError", val |-> None, reads |-> 1]
    ELSE LET kept == covering_entries(ratings.data[1], include_retail)
             desc == sorted_by \notin {"name", "firm"}
         IN [out |-> "ok",
             val |-> Some(
                 IF sorted_by = "stars"
                 THEN sorted(kept, [k \in 1..Len(kept) |-> Some(kept[k].analyst_ranking.stars)], desc)
                 ELSE IF sorted_by = "price_target"
                 THEN sorted(kept, [k \in 1..Len(kept) |-> kept[k].ratings[1].price_target], desc)
                 ELSE sorted(kept, KeysOf(kept, sorted_by), desc)),
             reads |-> 1]

InsiderSortVariables == {"name", "amount", "shares", "report_date"}

\* The reshaped entries of insider_trades before the sort.
insider_entries(payload) ==
    [k \in 1..Len(payload.insiders) |->
        [name |-> payload.insiders[k].name,
         amount |-> payload.insiders[k].amount]]

\* TipranksReader.insider_trades
tip_insider_trades(ratings, sorted_by) ==
    IF sorted_by \notin InsiderSortVariables
    THEN [out |-> "ValueError", val |-> None, reads |-> 0]
    ELSE IF ratings.err # "none" THEN [out |-> ratings.err, val |-> None, reads |-> 1]
    ELSE LET data == insider_entries(ratings.data[1])
             desc == sorted_by \in {"amount", "shares", "report_date"}
         IN [out |-> "ok",
             val |-> Some(sorted(data, KeysOf(data, sorted_by), desc)),
             reads |-> 2]

HoldingSortVariables == {
    "name", "firm", "stars", "rank", "value", "change", "percentage_of_portfolio" }

\* The reshaped entries of institutional_ownership before the sort.
holding_entries(payload) ==
    [k \in 1..Len(payload.institutionalHoldings) |->
        [name |-> payload.institutionalHoldings[k].managerName,
         stars |-> Some(payload.institutionalHoldings[k].stars[1]),
         value |-> payload.institutionalHoldings[k].value]]

\* TipranksReader.institutional_ownership
tip_institutional_ownership(ratings, sorted_by) ==
    IF sorted_by \notin HoldingSortVariables
    THEN [out |-> "ValueError", val |-> None, reads |-> 0]
    ELSE IF ratings.err # "none" THEN [out |-> ratings.err, val |-> None, reads |-> 1]
    ELSE IF \E k \in 1..Len(ratings.data[1].institutionalHoldings) :
                ratings.data[1].institutionalHoldings[k].stars = None
    THEN [out |-> "TypeError", val |-> None, reads |-> 1]
    ELSE LET data == holding_entries(ratings.data[1])
             desc == sorted_by \notin {"name", "firm"}
         IN [out |-> "ok",
             val |-> Some(sorted(data, KeysOf(data, sorted_by), desc)),
             reads |-> 1]

\* round(n / d, 2) as a count of hundredths, for 1 <= n / d <= 5.  n / d is
\* the double nearest to the quotient, and round() takes the hundredth
\* nearest to that double: when the quotient lies halfway between two
\* hundredths, the side the double fell on decides (r is the remainder of
\* n * 2^sh by d, sh the number of fraction bits of the double), and only a
\* double that is the quotient exactly goes to the even hundredth.
round_hundredths(n, d) ==
    LET q == (n * 100) \div d
        rem == (n * 100) % d
        sh == IF n < 2 * d THEN 52 ELSE IF n < 4 * d THEN 51 ELSE 50
        r == ShiftMod(n % d, sh, d)
    IN IF 2 * rem < d THEN q
       ELSE IF 2 * rem > d THEN q + 1
       ELSE IF r = 0 THEN (IF q % 2 = 0 THEN q ELSE q + 1)
       ELSE IF 2 * r < d THEN q
       ELSE q + 1

\* round((buy*5 + hold*3 + sell) / (buy + hold + sell), 2), as a count of
\* hundredths; the division raises ZeroDivisionError on a zero sum.
consensus_average(buy, hold, sell) ==
    IF buy + hold + sell = 0 THEN [err |-> "ZeroDivisionError", val |-> 0]
    ELSE [err |-> "", val |-> round_hundredths(buy * 5 + hold * 3 + sell, buy + hold + sell)]

\* TipranksReader.peers: the average is computed only on a non-zero sum.
peers(ratings) ==
    LET payload == ratings.data[1]
        counts(k) == payload.similarStocks[k].consensusData[1]
    IN IF ratings.err # "none" THEN [out |-> ratings.err, val |-> None, reads |-> 1]
       ELSE
       [out |-> "ok",
        val |-> Some([k \in 1..Len(payload.similarStocks) |->
                    [buy |-> counts(k).nB, hold |-> counts(k).nH, sell |-> counts(k).nS,
                     average |-> IF counts(k).nB + counts(k).nH + counts(k).nS # 0
                                 THEN Some(consensus_average(counts(k).nB, counts(k).nH,
                                                             counts(k).nS).val)
                                 ELSE None]]),
        reads |-> 1]

\* The key of a date: int(pd.to_datetime(date).timestamp()) with timestamps,
\* date.isoformat() without.
date_key(timestamps, days) ==
    IF timestamps THEN TimestampValue(days * DaySeconds)
    ELSE IsoValue(iso_date_of_seconds(days * DaySeconds))

\* The record that recommendation_trend stores for an entry (the counts and
\* the average; the rating and the price target are copied through).
trend_record(item) ==
    [buy |-> item.buy, hold |-> item.hold, sell |-> item.sell,
     average |-> consensus_average(item.buy, item.hold, item.sell).val]

\* One dataset of recommendation_trend: the entries of a date overwrite one
\* another, the last one stays.
trend_dataset(items, timestamps) ==
    LET keys == {date_key(timestamps, items[k].date) : k \in 1..Len(items)}
        last(key) == CHOOSE k \in 1..Len(items) :
                        /\ date_key(timestamps, items[k].date) = key
                        /\ \A j \in (k + 1)..Len(items) :
                              date_key(timestamps, items[j].date) # key
    IN [key \in keys |-> trend_record(items[last(key)])]

\* TipranksReader.recommendation_trend
tip_recommendation_trend(ratings, timestamps) ==
    LET all == ratings.data[1].consensusOverTime
        best == ratings.data[1].bestConsensusOverTime
        fails(items) == \E k \in 1..Len(items) :
            consensus_average(items[k].buy, items[k].hold, items[k].sell).err # ""
    IN IF ratings.err # "none" THEN [out |-> ratings.err, val |-> None, reads |-> 1]
       ELSE IF fails(all) \/ fails(best)
       THEN [out |-> "ZeroDivisionError", val |-> None, reads |-> 1]
       ELSE [out |-> "ok",
             val |-> Some([all_analysts |-> trend_dataset(all, timestamps),
                           best_analysts |-> trend_dataset(best, timestamps)]),
             reads |-> 1]

\* The dicts that recommendation_trend_breakup builds are objects: objs[1]
\* is data, objs[i] every dict created after it.  A dict maps a key to a
\* reference to a dict or to a number.
Ref(i) == [ref |-> i, n |-> 0]

Number(n) == [ref |-> 0, n |-> n]

\* A star rating as a dict key: equal to a timestamp of the same value.
StarsKey(stars) == [kind |-> "int", n |-> stars, text |-> <<>>]

\* The name of a field as a dict key.
FieldKey(name) == [kind |-> "field", n |-> 0, text |-> <<name>>]

\* d[key] = value
setitem(objs, d, key, value) == [objs EXCEPT ![d] = DictPut(@, key, value)]

\* data[prim_k] = data.get(prim_k, {}): a new dict unless data has the key.
set_primary(objs, prim_k) ==
    IF prim_k \in DOMAIN objs[1] THEN objs
    ELSE setitem(Append(objs, <<>>), 1, prim_k, Ref(Len(objs) + 1))

\* data[prim_k][sec_k] = data.get(sec_k, {}): the default is looked up in
\* data, not in data[prim_k].
set_secondary(objs, prim_k, sec_k) ==
    IF sec_k \in DOMAIN objs[1]
    THEN setitem(objs, objs[1][prim_k].ref, sec_k, Ref(objs[1][sec_k].ref))
    ELSE setitem(Append(objs, <<>>), objs[1][prim_k].ref, sec_k, Ref(Len(objs) + 1))

\* data[prim_k][sec_k][name] = n
set_field(objs, prim_k, sec_k, name, n) ==
    setitem(objs, objs[objs[1][prim_k].ref][sec_k].ref, FieldKey(name), Number(n))

\* The assignments of buy, hold and sell (consensus_rating is copied from
\* the entry in the same way and is left out).
set_counts(objs, prim_k, sec_k, item) ==
    set_field(set_field(set_field(objs, prim_k, sec_k, "buy", item.nB),
                        prim_k, sec_k, "hold", item.nH),
              prim_k, sec_k, "sell", item.nS)

\* The assignment of the average, whose division may raise.
set_average(objs, prim_k, sec_k, avg) ==
    IF avg.err # "" THEN [err |-> avg.err, objs |-> objs]
    ELSE [err |-> "", objs |-> set_field(objs, prim_k, sec_k, "average", avg.val)]

\* The body of the loop of recommendation_trend_breakup for one entry.
breakup_item(objs, item, sorted_by, timestamps) ==
    LET stars == StarsKey(item.mStars)
        date == date_key(timestamps, item.d)
        prim_k == IF sorted_by = "stars" THEN stars ELSE date
        sec_k == IF sorted_by = "stars" THEN date ELSE stars
    IN set_average(
           set_counts(set_secondary(set_primary(objs, prim_k), prim_k, sec_k),
                      prim_k, sec_k, item),
           prim_k, sec_k, consensus_average(item.nB, item.nH, item.nS))

RECURSIVE breakup_loop(_, _, _, _, _)
breakup_loop(objs, items, k, sorted_by, timestamps) ==
    IF k > Len(items) THEN [err |-> "", objs |-> objs]
    ELSE LET r == breakup_item(objs, items[k], sorted_by, timestamps)
         IN IF r.err # "" THEN r
            ELSE breakup_loop(r.objs, items, k + 1, sorted_by, timestamps)

\* TipranksReader.recommendation_trend_breakup: no check of sorted_by; the
\* primary key of the result is the star count when sorted_by is "stars" and
\* the date for every other value.  The value is the object graph of data.
recommendation_trend_breakup(ratings, sorted_by, timestamps) ==
    LET r == breakup_loop(<< <<>> >>, ratings.data[1].consensuses, 1, sorted_by, timestamps)
    IN IF ratings.err # "none" THEN [out |-> ratings.err, val |-> None, reads |-> 1]
       ELSE IF r.err # "" THEN [out |-> r.err, val |-> None, reads |-> 1]
       ELSE [out |-> "ok", val |-> Some(r.objs), reads |-> 1]

\* An accessor that reshapes one key of the payload.
tip_reshape(ratings) ==
    IF ratings.err # "none" THEN [out |-> ratings.err, val |-> None, reads |-> 1]
    ELSE [out |-> "ok", val |-> None, reads |-> 1]

TInit ==
    /\ tPc = "new"
    /\ ratings_data = None
    /\ tReq = 0
    /\ tLast = [op |-> "none", args |-> <<>>, out |-> "none", val |-> None, nreq |-> 0]
    /\ tCalls = 0

\* TipranksReader(ticker): stores the ticker.
NewTipranksReader ==
    /\ tPc = "new"
    /\ YahooUnused
    /\ tPc' = "done"
    /\ tLast' = [op |-> "__init__", args |-> <<>>, out |-> "ok", val |-> None, nreq |-> 0]
    /\ UNCHANGED <<ratings_data, tReq, tCalls>>
    /\ UNCHANGED <<secVars, yVars, hVars>>

\* What the getData endpoint answers: anything while no payload is cached,
\* the cached payload afterwards.
Upstream ==
    IF ratings_data = None THEN RatingsResponses
    ELSE {[err |-> "none", body |-> ratings_data]}

\* What the accessor's first call of _get_ratings_data gives.
Ratings(up) == get_ratings_data(ratings_data, up)

\* One payload-backed accessor call; r is the accessor's result on Ratings(up).
\* The attribute is set by the first call of _get_ratings_data that returns.
TCall(op, args, r, up) ==
    /\ tPc = "done"
    /\ tCalls < MaxCalls
    /\ tCalls' = tCalls + 1
    /\ tLast' = [op |-> op, args |-> args, out |-> r.out, val |-> r.val,
                 nreq |-> ratings_requests(ratings_data, up, r.reads)]
    /\ tReq' = tReq + ratings_requests(ratings_data, up, r.reads)
    /\ ratings_data' = IF r.reads = 0 THEN ratings_data ELSE Ratings(up).data
    /\ UNCHANGED tPc
    /\ UNCHANGED <<secVars, yVars, hVars>>

\* An accessor call that issues its own request and leaves the cache alone.
TOwnRequest(op) ==
    /\ tCalls < MaxCalls
    /\ tCalls' = tCalls + 1
    /\ tLast' = [op |-> op, args |-> <<>>, out |-> "ok", val |-> None, nreq |-> 1]
    /\ UNCHANGED <<tPc, ratings_data, tReq>>
    /\ UNCHANGED <<secVars, yVars, hVars>>

TIsin == tPc = "done" /\ \E up \in Upstream : TCall("isin", <<>>, tip_reshape(Ratings(up)), up)

BloggerSentiment == tPc = "done" /\ \E up \in Upstream : TCall("blogger_sentiment", <<>>, tip_reshape(Ratings(up)), up)

CoveringAnalysts ==
    tPc = "done" /\ \E up \in Upstream, include_retail \in BOOLEAN,
       sorted_by \in {"name", "price_target", "stars", "bogus"} :
        TCall("covering_analysts", <<include_retail, sorted_by>>,
              covering_analysts(Ratings(up), include_retail, sorted_by), up)

TInsiderTrades ==
    tPc = "done" /\ \E up \in Upstream, sorted_by \in {"name", "amount", "bogus"} :
        TCall("insider_trades", <<sorted_by>>,
              tip_insider_trades(Ratings(up), sorted_by), up)

TInstitutionalOwnership ==
    tPc = "done" /\ \E up \in Upstream, sorted_by \in {"name", "value", "stars", "bogus"} :
        TCall("institutional_ownership", <<sorted_by>>,
              tip_institutional_ownership(Ratings(up), sorted_by), up)

InstitutionalOwnershipTrend ==
    tPc = "done" /\ \E up \in Upstream : TCall("institutional_ownership_trend", <<>>, tip_reshape(Ratings(up)), up)

Peers == tPc = "done" /\ \E up \in Upstream : TCall("peers", <<>>, peers(Ratings(up)), up)

TRecommendationTrend ==
    tPc = "done" /\ \E up \in Upstream, timestamps \in BOOLEAN :
        TCall("recommendation_trend", <<timestamps>>,
              tip_recommendation_trend(Ratings(up), timestamps), up)

\* A call of recommendation_trend_breakup; a sort key outside the documented
\* ones is tried with the default timestamps only.
RecommendationTrendBreakup ==
    tPc = "done" /\ \E up \in Upstream, sorted_by \in {"stars", "date", "bogus"},
                        timestamps \in BOOLEAN :
        /\ sorted_by = "bogus" => ~timestamps
        /\ TCall("recommendation_trend_breakup", <<sorted_by, timestamps>>,
                 recommendation_trend_breakup(Ratings(up), sorted_by, timestamps), up)

\* TipranksReader.news_sentiment: its own request on every call.
NewsSentiment == tPc = "done" /\ TOwnRequest("news_sentiment")

\* TipranksReader.trending_stocks (class-level): its own request.
TrendingStocks == YahooUnused /\ TOwnRequest("trending_stocks")

----------------------------------------------------------------------------
(* Specifications.  The three components do not interact; a behaviour      *)
(* follows one object (a filing, a YahooReader or a TipranksReader) from    *)
(* its construction on.                                                    *)

Init == SecInit /\ YInit /\ TInit /\ HInit

SecNext ==
    \/ NewSECFiling
    \/ NewFiling13D
    \/ NewFiling13G
    \/ PercentAcquired
    \/ SharesAcquired
    \/ SubjectCusip

YNext ==
    \/ NewYahooReader
    \/ Profile
    \/ Logo
    \/ OwnershipBreakdown
    \/ AnalystRecommendations
    \/ RecommendationTrend
    \/ InstitutionalOwnership
    \/ FundOwnership
    \/ InsiderOwnership
    \/ InsiderTrades
    \/ EsgScores
    \/ SecFilings
    \/ FundStatistics
    \/ Holdings
    \/ IncomeStatement
    \/ BalanceSheet
    \/ CashflowStatement
    \/ FinancialStatement
    \/ Isin
    \/ HistoricalData
    \/ Options
    \/ Crumb
    \/ Currencies

TNext ==
    \/ NewTipranksReader
    \/ TIsin
    \/ BloggerSentiment
    \/ CoveringAnalysts
    \/ TInsiderTrades
    \/ TInstitutionalOwnership
    \/ InstitutionalOwnershipTrend
    \/ NewsSentiment
    \/ Peers
    \/ TRecommendationTrend
    \/ RecommendationTrendBreakup
    \/ TrendingStocks

ClientsNext ==
    \/ YNext
    \/ TNext

HNext ==
    \/ HistoricalDataFrame

SpecSEC == Init /\ [][SecNext]_vars

SpecYahoo == Init /\ [][YNext]_vars

SpecTipranks == Init /\ [][TNext]_vars

SpecClients == Init /\ [][ClientsNext]_vars

SpecHistory == Init /\ [][HNext]_vars

----------------------------------------------------------------------------
(* Properties of the filing parser *)

\* The offsets of the filer blocks of a header: the units introduced by
\* FILER: or FILED BY:.
FilerBlocks(h) == {i \in 1..Len(h) : h[i].marker \in {FILER, FILED_BY}}

\* A header whose filer blocks all use the same marker and all carry a name
\* line and a CIK line.
WellFormedFilers(h) ==
    /\ \A i, j \in FilerBlocks(h) : h[i].marker = h[j].marker
    /\ \A i \in FilerBlocks(h) : h[i].body.name /\ h[i].body.cik

\* The concatenation of a list of lists.
RECURSIVE Flatten(_)
Flatten(ss) == IF Len(ss) = 0 THEN <<>> ELSE Head(ss) \o Flatten(Tail(ss))

\* C1: a header with N >= 1 (well-formed) filer blocks, wherever its SUBJECT
\* COMPANY: section lies, gives SECFiling a filer list of exactly N records,
\* each with a non-empty name and an integer CIK.
C1_OneRecordPerFilerBlock ==
    (secPc = "done" /\ secCls = "SECFiling"
        /\ WellFormedFilers(secFile.header)
        /\ Cardinality(FilerBlocks(secFile.header)) >= 1)
    => /\ Len(filer) = Cardinality(FilerBlocks(secFile.header))
       /\ \A k \in 1..Len(filer) : Len(filer[k].name) > 0 /\ filer[k].cik \in Int

\* C2: with both markers present, the subject section runs from the subject
\* marker to the filer marker (or to the end when it comes second), the filer
\* section from the filer marker to the end (or to the subject marker), and
\* neither section holds a block of the other party.
C2_SectionsBoundedByOffsets ==
    LET h == secFile.header
        L == Len(h)
        f == IF Find(h, FILER) = -1 THEN Find(h, FILED_BY) ELSE Find(h, FILER)
        s == Find(h, SUBJECT_COMPANY)
        filer_section == Flatten(filer_information)
    IN (secPc = "done" /\ f # -1 /\ s # -1)
       => /\ s < f => /\ subject_information = [j \in 1..(f - s) |-> s + j - 1]
                      /\ filer_section = [j \in 1..(L - f) |-> f + j - 1]
          /\ s > f => /\ subject_information = [j \in 1..(L - s) |-> s + j - 1]
                      /\ filer_section = [j \in 1..(s - f) |-> f + j - 1]
          /\ \A j \in 1..Len(subject_information) :
                 h[subject_information[j] + 1].marker = SUBJECT_COMPANY
          /\ \A j \in 1..Len(filer_section) :
                 h[filer_section[j] + 1].marker # SUBJECT_COMPANY

\* C3: every constructed filing has a non-empty filer list, and a non-empty
\* subject only when it is a Filing13D or a Filing13G.
C3_FilerNonEmptySubjectOnlySubtype ==
    secPc = "done"
    => /\ Len(filer) >= 1
       /\ subject # EmptyDict => secCls \in {"Filing13D", "Filing13G"}
       /\ secCls = "SECFiling" => subject = EmptyDict

----------------------------------------------------------------------------
(* Properties of the market-data client *)

\* C4: after any sequence of accessor calls the cached payload equals the
\* payload fetched at construction.
C4_CachedPayloadUnchanged ==
    yPc = "done" => stored_data = fetched

\* The accessors that read the cached payload, and the module key each needs.
PayloadAccessors == {
    "profile", "analyst_recommendations", "recommendation_trend",
    "institutional_ownership", "fund_ownership", "insider_ownership",
    "ownership_breakdown", "insider_trades", "esg_scores", "sec_filings",
    "fund_statistics", "holdings", "income_statement", "balance_sheet",
    "cashflow_statement" }

RequiredModule(op, args) ==
    CASE op = "profile" -> "assetProfile"
      [] op = "analyst_recommendations" -> "upgradeDowngradeHistory"
      [] op = "recommendation_trend" -> "recommendationTrend"
      [] op = "institutional_ownership" -> "institutionOwnership"
      [] op = "fund_ownership" -> "fundOwnership"
      [] op = "insider_ownership" -> "insiderHolders"
      [] op = "ownership_breakdown" -> "majorHoldersBreakdown"
      [] op = "insider_trades" -> "insiderTransactions"
      [] op = "esg_scores" -> "esgScores"
      [] op = "sec_filings" -> "secFilings"
      [] op = "fund_statistics" -> "fundProfile"
      [] op = "holdings" -> "topHoldings"
      [] op = "income_statement" ->
            IF args[1] THEN "incomeStatementHistoryQuarterly" ELSE "incomeStatementHistory"
      [] op = "balance_sheet" ->
            IF args[1] THEN "balanceSheetHistoryQuarterly" ELSE "balanceSheetHistory"
      [] op = "cashflow_statement" ->
            IF args[1] THEN "cashflowStatementHistoryQuarterly" ELSE "cashflowStatementHistory"

\* The last call was a payload accessor whose module key the payload lacks.
ModuleAbsentCall ==
    /\ yLast.op \in PayloadAccessors
    /\ RequiredModule(yLast.op, yLast.args) \notin DOMAIN stored_data[1]

\* C5: a payload accessor whose module key is absent from the payload raises
\* DatasetError and nothing else, at the first call and at every later one.
C5_AbsentModuleRaisesDatasetError ==
    ModuleAbsentCall => yLast.out = "DatasetError"

C5_Witness ==
    ModuleAbsentCall /\ yCalls >= 2 /\ yLast.out = "DatasetError"

\* The last call of each reader was an accessor call.
YAccessorCall == yLast.op \notin {"none", "__init__"}

TAccessorCall == tLast.op \notin {"none", "__init__"}

\* C6 as stated: every accessor call of either class issues at most one
\* network request.
C6_AtMostOneRequestPerCall ==
    /\ YAccessorCall => yLast.nreq <= 1
    /\ TAccessorCall => tLast.nreq <= 1

\* C6 amended: at most one request per accessor call, except logo, which
\* issues a second one exactly when the first image source answered with the
\* placeholder or the server-error body and the profile has a website.
C6_AtMostOneRequestExceptLogo ==
    /\ (YAccessorCall /\ yLast.op # "logo") => yLast.nreq <= 1
    /\ yLast.op = "logo" =>
         /\ yLast.nreq \in {1, 2}
         /\ yLast.nreq = 2 <=>
              /\ yLast.args[1] \in {"PLACEHOLDER_LOGO", "SERVER_ERROR_MESSAGE"}
              /\ "assetProfile" \in DOMAIN stored_data[1]
              /\ {"fullTimeEmployees", "longBusinessSummary", "companyOfficers", "website"}
                    \subseteq DOMAIN stored_data[1]["assetProfile"]
    /\ TAccessorCall => tLast.nreq <= 1

C6_Witness ==
    yLast.op = "logo" /\ yLast.out = "ok" /\ yLast.nreq = 2

\* C8: a constructed YahooReader has requested the quoteSummary bundle
\* exactly once, whatever accessor calls were made since.
C8_BundleRequestedOnce ==
    /\ yPc = "done" => yReq.bundle = 1
    /\ yReq.bundle <= 1

C8_Witness ==
    yPc = "done" /\ yCalls >= 2 /\ yReq.bundle = 1

\* The upper-case form of a text of Latin-1 characters, written out: the
\* letters a to z and the accented letters 224 to 254 (but the division sign
\* 247) move down by 32, the sharp s becomes SS, the micro sign becomes the
\* Greek capital mu (924), y with diaeresis becomes 376, and every other
\* character stays.
RECURSIVE Latin1UpperCase(_)
Latin1UpperCase(s) ==
    IF Len(s) = 0 THEN <<>>
    ELSE (IF s[1] \in (97..122) \cup ((224..254) \ {247}) THEN <<s[1] - 32>>
          ELSE IF s[1] = 223 THEN <<83, 83>>
          ELSE IF s[1] = 181 THEN <<924>>
          ELSE IF s[1] = 255 THEN <<376>>
          ELSE <<s[1]>>) \o Latin1UpperCase(Tail(s))

\* The lookup response holds a row for the identifier.
Resolves(resp, i) == \E k \in 1..Len(resp) : resp[k].isin = i

\* C9: construction uses a given ticker upper-cased without any lookup, also
\* when an identifier is given; with an identifier only it calls the lookup
\* once, uses the symbol of the identifier's row, and raises ValueError
\* before any payload request when the response holds no row for the
\* identifier; with neither it raises ValueError without any request; a
\* payload that reports an error raises TickerError and leaves no cached
\* payload.
C9_Construction ==
    yLast.op = "__init__" =>
        LET t == yLast.args[1]
            i == yLast.args[2]
            lookup == yLast.args[3]
        IN /\ Truthy(t) =>
                /\ yReq.lookup = 0 /\ lookup = None
                /\ ticker = Some(Latin1UpperCase(t[1]))
                /\ yReq.bundle = 1
           /\ (~Truthy(t) /\ Truthy(i)) =>
                /\ yReq.lookup = 1 /\ lookup # None
                /\ ~Resolves(lookup[1], i[1]) =>
                      /\ yLast.out = "ValueError" /\ yPc = "raised"
                      /\ yReq.bundle = 0 /\ stored_data = None
                /\ Resolves(lookup[1], i[1]) =>
                      /\ yLast.out # "ValueError" /\ yReq.bundle = 1
                      /\ \E k \in 1..Len(lookup[1]) :
                            lookup[1][k].isin = i[1] /\ ticker = Some(lookup[1][k].symbol)
           /\ (~Truthy(t) /\ ~Truthy(i)) =>
                /\ yLast.out = "ValueError" /\ yPc = "raised"
                /\ yReq.lookup = 0 /\ yReq.bundle = 0
           /\ yLast.out = "TickerError" => (stored_data = None /\ yPc = "raised")

\* A reader built from the ticker ss1 and an identifier: the ticker is SS1
\* and the lookup was not called.
C9_Witness ==
    /\ yLast.op = "__init__"
    /\ yLast.args = <<Some(<<115, 115, 49>>), Some(<<"U", "1">>), None>>
    /\ yPc = "done"
    /\ ticker = Some(<<83, 83, 49>>)
    /\ yReq.lookup = 0

\* A construction from an identifier for which the lookup response holds
\* another identifier's row only: ValueError, and no payload request.
C9_WitnessUnresolved ==
    /\ yLast.op = "__init__"
    /\ yLast.args[1] = None /\ yLast.args[2] = Some(<<"U", "1">>)
    /\ yLast.args[3] = Some(<<[isin |-> <<"U", "2">>, symbol |-> <<83, 83, 49>>]>>)
    /\ yLast.out = "ValueError"
    /\ yReq = [lookup |-> 1, bundle |-> 0]

\* A reader built from the ticker spelt with the sharp s, whose upper-case
\* form is one character longer.
C9_WitnessSharpS ==
    /\ yLast.op = "__init__"
    /\ yLast.args[1] = Some(<<223, 49>>)
    /\ ticker = Some(<<83, 83, 49>>)

----------------------------------------------------------------------------
(* Properties of the analyst-data client *)

PayloadBacked == {
    "isin", "blogger_sentiment", "covering_analysts", "insider_trades",
    "institutional_ownership", "institutional_ownership_trend", "peers",
    "recommendation_trend", "recommendation_trend_breakup" }

\* C7 as stated: construction requests nothing; the getData payload is
\* requested once, by the first payload-backed call that reaches the fetch,
\* and the payload then cached is the one every later call works on.
C7_RatingsRequestedOnce ==
    /\ [](/\ tLast.op = "__init__" => (tReq = 0 /\ tLast.nreq = 0 /\ ratings_data = None)
          /\ tReq = (IF ratings_data = None THEN 0 ELSE 1)
          /\ (tLast.op \in PayloadBacked /\ tLast.out # "ValueError") => tReq = 1)
    /\ [][ratings_data # None => (ratings_data' = ratings_data /\ tReq' = tReq)]_vars

\* The exceptions of a getData request, which no accessor raises otherwise.
RequestRaised(out) == out \in {"ConnectionError", "JSONDecodeError"}

\* C7: construction requests nothing.  While no payload is cached, a
\* payload-backed call that reaches the fetch issues exactly one request; the
\* payload is cached exactly when that request returned one, and a request
\* that raised is raised to the caller, caches nothing and is issued again by
\* the next such call.  Once a payload is cached, it stays the cached one and
\* no call requests it again.
C7_RequestedUntilCached ==
    /\ [](/\ tLast.op = "__init__" => (tReq = 0 /\ tLast.nreq = 0 /\ ratings_data = None)
          /\ ratings_data # None => tReq >= 1
          /\ (tLast.op \in PayloadBacked /\ RequestRaised(tLast.out)) => tLast.nreq = 1)
    /\ [][(tCalls' = tCalls + 1 /\ tLast'.op \in PayloadBacked /\ ratings_data = None) =>
            IF tLast'.out = "ValueError"
            THEN tReq' = tReq /\ tLast'.nreq = 0 /\ ratings_data' = None
            ELSE /\ tReq' = tReq + 1 /\ tLast'.nreq = 1
                 /\ ratings_data' = None <=> RequestRaised(tLast'.out)]_vars
    /\ [][ratings_data # None =>
            /\ ratings_data' = ratings_data /\ tReq' = tReq
            /\ (tCalls' = tCalls + 1 /\ tLast'.op \in PayloadBacked) => tLast'.nreq = 0]_vars

\* A call whose request raised, followed by a call whose request returned the
\* payload: two requests, the second payload cached.
C7_Witness ==
    /\ tCalls = 2
    /\ tLast.op \in PayloadBacked
    /\ tLast.out = "ok"
    /\ tLast.nreq = 1
    /\ tReq = 2
    /\ ratings_data # None

\* A second call served from the cache: one request in all.
C7_WitnessReuse ==
    /\ tCalls >= 2
    /\ tLast.op \in PayloadBacked
    /\ tLast.out = "ok"
    /\ tLast.nreq = 0
    /\ tReq = 1

\* The value a result entry is sorted on.
SortValue(op, sorted_by, x) ==
    IF op = "covering_analysts" /\ sorted_by = "stars" THEN Some(x.analyst_ranking.stars)
    ELSE IF op = "covering_analysts" /\ sorted_by = "price_target"
    THEN x.ratings[1].price_target
    ELSE x[sorted_by]

SortedCall ==
    /\ tLast.op \in {"covering_analysts", "insider_trades", "institutional_ownership"}
    /\ tLast.out = "ok"

SortedBy == IF tLast.op = "covering_analysts" THEN tLast.args[2] ELSE tLast.args[1]

\* C10: in a sorted result every entry with a null sort value comes after
\* every entry with a non-null one, for ascending and descending keys alike.
C10_NullsLast ==
    SortedCall =>
        LET res == tLast.val[1]
        IN \A a, b \in 1..Len(res) :
              (/\ SortValue(tLast.op, SortedBy, res[a]) = None
               /\ SortValue(tLast.op, SortedBy, res[b]) # None) => b < a

\* The entries the last sorted call worked on, before the sort.
SortedInput ==
    CASE tLast.op = "covering_analysts" -> covering_entries(ratings_data[1], tLast.args[1])
      [] tLast.op = "insider_trades" -> insider_entries(ratings_data[1])
      [] tLast.op = "institutional_ownership" -> holding_entries(ratings_data[1])

\* The number of occurrences of x in the list.
Count(list, x) == Cardinality({k \in 1..Len(list) : list[k] = x})

\* C11: among the entries with a non-null sort value the result is in
\* non-decreasing order for an alphabetic key (name, firm) and in
\* non-increasing order for every other key, and the result is a permutation
\* of the (filtered) input entries.
C11_OrderedPermutation ==
    SortedCall =>
        LET res == tLast.val[1]
            v(k) == SortValue(tLast.op, SortedBy, res[k])
        IN /\ \A a, b \in 1..Len(res) :
                 (a < b /\ v(a) # None /\ v(b) # None) =>
                    IF SortedBy \in {"name", "firm"} THEN v(a)[1] <= v(b)[1]
                    ELSE v(a)[1] >= v(b)[1]
           /\ Len(res) = Len(SortedInput)
           /\ \A k \in 1..Len(res) : Count(res, res[k]) = Count(SortedInput, res[k])

C11_Witness ==
    /\ SortedCall
    /\ SortedBy \notin {"name", "firm"}
    /\ Len(tLast.val[1]) >= 2
    /\ SortValue(tLast.op, SortedBy, tLast.val[1][1]) = Some(2)
    /\ SortValue(tLast.op, SortedBy, tLast.val[1][2]) = Some(1)
    /\ tLast.val[1] # SortedInput

\* The accessors that take a sort key, and the keys each allows.
SortKeyAccessors == {
    "covering_analysts", "insider_trades", "institutional_ownership",
    "recommendation_trend_breakup" }

AllowedSortKeys(op) ==
    CASE op = "covering_analysts" -> CoveringSortVariables
      [] op = "insider_trades" -> InsiderSortVariables
      [] op = "institutional_ownership" -> HoldingSortVariables
      [] op = "recommendation_trend_breakup" -> {"stars", "date"}

\* C12: a call of a sort-key accessor with a key outside its allowed set
\* raises ValueError, issues no request and leaves the payload cache as it
\* was (unset when it is the first call).
C12_InvalidSortKeyRejected ==
    (tLast.op \in SortKeyAccessors /\ SortedBy \notin AllowedSortKeys(tLast.op)) =>
        /\ tLast.out = "ValueError"
        /\ tLast.nreq = 0
        /\ tCalls = 1 => ratings_data = None

----------------------------------------------------------------------------
(* Properties of the price history *)

\* The index value that the last call gives to a timestamp.
IndexValue(t) ==
    index_of(hist.call.timestamps, hist.call.frequency, hist.call.chart.gmtoffset, t)

\* The index values of the price bars of a chart response.
BarTimes(chart) == {IndexValue(chart.ts[k]) : k \in 1..Len(chart.ts)}

\* The row of the returned frame with the given index value.
RowAt(t) == hist.rows[CHOOSE k \in 1..Len(hist.rows) : hist.rows[k].index = t]

\* C13: at weekly, monthly or quarterly frequency every dividend and every
\* split whose index value matches no price bar and which is followed by a
\* price bar appears on the first later row that carries a price.
C13_EventOnNextPriceRow ==
    (hist.out = "ok" /\ hist.call.frequency \in {"1wk", "1mo", "3mo"}) =>
        \A col \in {"dividends", "splits"} :
            \A e \in hist.call.chart[col] :
                (/\ IndexValue(e) \notin BarTimes(hist.call.chart)
                 /\ \E t \in BarTimes(hist.call.chart) : t > IndexValue(e)) =>
                    LET p == CHOOSE t \in BarTimes(hist.call.chart) :
                                /\ t > IndexValue(e)
                                /\ \A u \in BarTimes(hist.call.chart) :
                                      u > IndexValue(e) => t <= u
                    IN /\ \E k \in 1..Len(hist.rows) : hist.rows[k].index = p
                       /\ RowAt(p)[col] = Some(e)

\* C14: for a non-empty price series the call succeeds; the last row is
\* dropped exactly when there are at least two bars and the final two
\* timestamps are equal, and the other bars are returned as they came.
C14_TrailingDuplicateDropped ==
    (hist.out # "none" /\ hist.call.start = Absent /\ hist.call.end = Absent
        /\ Len(hist.call.chart.ts) >= 1) =>
        LET ts == hist.call.chart.ts
            n == Len(ts)
            kept == IF n >= 2 /\ ts[n] = ts[n - 1] THEN n - 1 ELSE n
            bars == SelectSeq(hist.rows, LAMBDA r : r.close)
        IN /\ hist.out = "ok"
           /\ [k \in 1..Len(bars) |-> bars[k].bar] = [k \in 1..kept |-> k]

----------------------------------------------------------------------------
(* Properties of the ownership-disclosure document *)

\* A text with its blanks and hyphens left out.
NoSeparators(s) == SelectSeq(s, LAMBDA c : c \notin {" ", "-"})

PercentMatches ==
    IF secFile.document.percent = None THEN <<>>
    ELSE SelectSeq(secFile.document.percent[1], LAMBDA it : it.pct)

\* C16: whenever a numeric token p follows the percent-of-class phrase and is
\* followed by %, percent_acquired returns p/100 rounded to 8 decimal places,
\* also when p holds a thousands separator or more than one decimal point.
C16_PercentOfEveryToken ==
    (secLast.op = "percent" /\ Len(PercentMatches) > 0) =>
        LET p == PercentMatches[1].tok
        IN /\ secLast.out = "ok"
           /\ Count1(p, ".") <= 1 => secLast.val = Some(percent_of(Without(p, ",")))

\* The numeric runs after the aggregate-amount phrase.
SharesRuns ==
    IF secFile.document.shares = None THEN <<>> ELSE secFile.document.shares[1]

\* C17: shares_acquired returns the first numeric token after the
\* aggregate-amount phrase as an integer, its thousands separators removed,
\* whether or not the token holds a separator.
C17_FirstSharesToken ==
    (secLast.op = "shares" /\ Len(SharesRuns) > 0) =>
        /\ secLast.out = "ok"
        /\ secLast.val = Some(ToInt(Without(SharesRuns[1], ",")))

\* percent_acquired / shares_acquired and their parsers, by property name.
LazyAttr(op) == IF op = "percent" THEN percent_acquired ELSE shares_acquired

LazyParse(op) ==
    IF op = "percent" THEN parse_percent_acquired(secFile)
    ELSE parse_shares_acquired(secFile)

\* Nothing is computed at construction; an attribute is set only by an access
\* whose parse succeeded and then holds the parsed value; a property whose
\* parse fails stays unset; a successful access returns the parsed value.
LazyState ==
    /\ secCalls = 0 =>
         /\ percent_acquired = None /\ shares_acquired = None
         /\ secParses = [percent |-> 0, shares |-> 0]
    /\ IsFiling13D =>
         \A op \in {"percent", "shares"} :
            /\ LazyAttr(op) # None =>
                 /\ secParses[op] = 1
                 /\ LazyParse(op).err = "none"
                 /\ LazyAttr(op) = Some(LazyParse(op).val)
            /\ (secParses[op] > 0 /\ LazyParse(op).err = "none") => LazyAttr(op) # None
            /\ (secLast.op = op /\ secLast.out = "ok") => secLast.val = LazyAttr(op)

\* C18: percent_acquired and shares_acquired are not computed at
\* construction; an access of a property that is not cached parses exactly
\* once and caches the value exactly when the parse succeeded, so a failed
\* parse is repeated by the next access; an access of a cached property
\* returns the cached value and parses nothing.
C18_LazyCachedOnce ==
    /\ []LazyState
    /\ [][\A op \in {"percent", "shares"} :
         (secCalls' = secCalls + 1 /\ secLast'.op = op) =>
            IF LazyAttr(op) # None
            THEN /\ secParses' = secParses
                 /\ secLast'.out = "ok" /\ secLast'.val = LazyAttr(op)
                 /\ percent_acquired' = percent_acquired
                 /\ shares_acquired' = shares_acquired
            ELSE /\ secParses'[op] = secParses[op] + 1
                 /\ IF LazyParse(op).err = "none"
                    THEN /\ secLast'.out = "ok"
                         /\ secLast'.val = Some(LazyParse(op).val)
                    ELSE /\ secLast'.out = LazyParse(op).err
                         /\ percent_acquired' = percent_acquired
                         /\ shares_acquired' = shares_acquired]_vars

\* A failed first access followed by a second access that parsed again, on an
\* object whose other property was not touched.
C18_WitnessRetry ==
    /\ IsFiling13D
    /\ secCalls = 2
    /\ secParses = [percent |-> 2, shares |-> 0]
    /\ secLast.out = "ValueError"
    /\ percent_acquired = None

\* Two accesses of a property whose parse succeeds: one parse.
C18_Witness ==
    /\ IsFiling13D
    /\ secCalls = 2
    /\ secParses = [percent |-> 0, shares |-> 1]
    /\ secLast.op = "shares" /\ secLast.out = "ok"
    /\ shares_acquired = Some(1234567)

----------------------------------------------------------------------------
(* Failure policy of the constructors *)

\* The non-empty items of the filer section of the file under construction.
FilerItems ==
    SelectSeq(split_header(secFile.header)[2],
              LAMBDA it : ~ItemEmpty(secFile.header, it))

\* The labelled line is found in the given part of the header.
Extracts(sec, field) == Len(FindAll(secFile.header, sec, field)) > 0

\* C19: a classification that cannot be extracted never fails construction
\* and gives sic_name = None and sic_code = None on that entity's record,
\* whose name and CIK are the extracted ones; a name or CIK that cannot be
\* extracted for a filer, or for the subject of a Filing13D, fails
\* construction and leaves no record, and so does every other extraction
\* failure (form type, filing date, identifier of a Filing13D).
C19_OnlyClassificationRecovered ==
    secPc \in {"done", "raised"} =>
        LET h == secFile.header
            si == split_header(h)[1]
            is13 == secCls \in {"Filing13D", "Filing13G"}
            filerFails == \E k \in 1..Len(FilerItems) :
                              ~Extracts(FilerItems[k], "name") \/ ~Extracts(FilerItems[k], "cik")
            subjectFails == is13 /\ (~Extracts(si, "name") \/ ~Extracts(si, "cik"))
            otherFails == \/ "FORM TYPE:" \notin secFile.meta
                          \/ parse_filing_date(secFile).err # "none"
                          \/ is13 /\ Len(secFile.document.cusips) = 0
        IN /\ secPc = "raised" <=> (filerFails \/ subjectFails \/ otherFails)
           /\ secPc = "raised" => (filer = <<>> /\ subject = EmptyDict /\ secErr # "none")
           /\ secPc = "done" =>
                /\ Len(filer) = Len(FilerItems)
                /\ \A k \in 1..Len(filer) :
                     /\ filer[k].name = parse_name(h, FilerItems[k]).val
                     /\ filer[k].cik = parse_cik(h, FilerItems[k]).val
                     /\ ~Extracts(FilerItems[k], "sic") =>
                           (filer[k].sic_name = None /\ filer[k].sic_code = None)
                /\ is13 =>
                     /\ subject.name = parse_name(h, si).val
                     /\ subject.cik = parse_cik(h, si).val
                     /\ ~Extracts(si, "sic") =>
                           (subject.sic_name = None /\ subject.sic_code = None)

\* A Filing13D built from a header in which neither the filer nor the subject
\* carries a classification line.
C19_Witness ==
    /\ secPc = "done"
    /\ secCls = "Filing13D"
    /\ Len(filer) = 1
    /\ filer[1].sic_name = None /\ filer[1].sic_code = None
    /\ subject.sic_name = None /\ subject.sic_code = None
    /\ subject.name # None /\ filer[1].name # None

\* A construction that raised on a header in which every filer and the subject
\* carry a name line, one filer carries no CIK line, and nothing else fails.
C19_WitnessCikFailure ==
    /\ secPc = "raised"
    /\ secErr = "IndexError"
    /\ filer = <<>>
    /\ Len(FilerItems) > 0
    /\ \A k \in 1..Len(FilerItems) : Extracts(FilerItems[k], "name")
    /\ \E k \in 1..Len(FilerItems) : ~Extracts(FilerItems[k], "cik")
    /\ secFile.meta = MetaLines
    /\ parse_filing_date(secFile).err = "none"

\* A Filing13D whose construction raised because the subject section carries
\* a name line and no CIK line, every filer being complete.
C19_WitnessSubjectCikFailure ==
    /\ secPc = "raised"
    /\ secCls = "Filing13D"
    /\ subject = EmptyDict
    /\ \A k \in 1..Len(FilerItems) :
          Extracts(FilerItems[k], "name") /\ Extracts(FilerItems[k], "cik")
    /\ Extracts(split_header(secFile.header)[1], "name")
    /\ ~Extracts(split_header(secFile.header)[1], "cik")
    /\ secFile.meta = MetaLines
    /\ parse_filing_date(secFile).err = "none"
    /\ Len(secFile.document.cusips) > 0

\* The first eight digits after the FILED AS OF DATE label read as YYYYMMDD
\* denote a calendar date.
ValidDate8(date) ==
    /\ Len(date) >= 8
    /\ ToInt(SubSeq(date, 1, 4)) \in 1..9999
    /\ ToInt(SubSeq(date, 5, 6)) \in 1..12
    /\ ToInt(SubSeq(date, 7, 8)) \in
          1..DaysInMonth(ToInt(SubSeq(date, 1, 4)), ToInt(SubSeq(date, 5, 6)))

\* C20: when the digits after the FILED AS OF DATE label begin with eight
\* digits YYYYMMDD that denote a calendar date, _parse_filing_date succeeds
\* and the filing date of the constructed object is YYYY-MM-DD; digits after
\* the eighth do not change it.
C20_EightDigitDateToken ==
    (/\ secPc \in {"done", "raised"}
     /\ "FILED AS OF DATE:" \in secFile.meta
     /\ ValidDate8(secFile.date)) =>
        LET d == secFile.date
        IN /\ parse_filing_date(secFile).err = "none"
           /\ secPc = "done" =>
                filing_date = Some(SubSeq(d, 1, 4) \o <<"-">> \o SubSeq(d, 5, 6)
                                   \o <<"-">> \o SubSeq(d, 7, 8))

----------------------------------------------------------------------------
(* Properties of the request bounds of historical_data *)

\* An argument that, when a text, is an ISO 8601 text of a date.
NamesDate(a) == a.kind = "str" => a.text \in IsoDateTexts

\* Days from 1970-01-01 to the calendar day an argument names: 1970-01-02
\* (also written 19700102 and 1970-W01-5) is day 1, 1972-03-01 is day 790
\* (365 + 365 + 31 + 29) and 2600-01-01 is day 230103 (630 * 365 + 153).
DaysSince1970(a) ==
    LET year == IF a.kind = "str" THEN digits_value(a.text, 1, 4) ELSE a.v.y
    IN IF year = 1970 THEN 1 ELSE IF year = 1972 THEN 790 ELSE 230103

\* The bound the claim asks for, in days and seconds of the day.
ClaimedBound(a) ==
    CASE a.kind \in {"str", "date"} -> [days |-> DaysSince1970(a), secs |-> 0]
      [] a.kind = "datetime" ->
           [days |-> DaysSince1970(a), secs |-> a.v.h * 3600 + a.v.mi * 60 + a.v.s]
      [] OTHER -> [days |-> a.n \div 86400, secs |-> a.n % 86400]

\* C21: each of start and end that is given as an ISO date string, a
\* calendar date, an instant or an integer is sent as whole Unix seconds: the
\* days since 1970-01-01 times 86400 for a string or a date, the whole
\* seconds since 1970-01-01 00:00:00 for an instant, the integer itself.
C21_BoundsNormalized ==
    (hist.out # "none" /\ NamesDate(hist.call.start) /\ NamesDate(hist.call.end)) =>
        /\ hist.call.start # Absent => hist.period1 = Some(ClaimedBound(hist.call.start))
        /\ hist.call.end # Absent => hist.period2 = Some(ClaimedBound(hist.call.end))

\* C22: a call without an end argument sends, as the end bound, the whole
\* seconds of the instant at which the call is made.
C22_DefaultEndIsCallTime ==
    (hist.out # "none" /\ hist.call.end = Absent /\ hist.period2 # None) =>
        hist.period2 = Some([days |-> hist.call.now.d - 1,
                             secs |-> hist.call.now.h * 3600 + hist.call.now.mi * 60
                                      + hist.call.now.s])

\* The bars of a frame, in row order.
BarsOf(rows) == [k \in 1..Len(rows) |-> rows[k].bar]

\* C27: for the same response and frequency the call returns the same bars
\* in the same order, and fails or succeeds alike, whether timestamps is
\* True or False.
C27_SameRowsEitherIndex ==
    (hist.out # "none" /\ hist.period1 # None) =>
        LET other == historical_data(hist.call.frequency, ~hist.call.timestamps,
                                     hist.call.tz_aware, hist.call.chart)
        IN /\ other.out = hist.out
           /\ BarsOf(other.rows) = BarsOf(hist.rows)

----------------------------------------------------------------------------
(* Properties of the option chain *)

\* C23: with timestamps = True the maturity of every returned call and put
\* is an ISO date text, with timestamps = False it is a Unix timestamp.
C23_MaturityFormat ==
    (yLast.op = "options" /\ yLast.out = "ok") =>
        LET want == IF yLast.args[1] THEN "str" ELSE "int"
            got == yLast.val[1]
        IN /\ \A k \in 1..Len(got.calls) : got.calls[k].kind = want
           /\ \A k \in 1..Len(got.puts) : got.puts[k].kind = want

\* C26: an accessor call that fails leaves the cached payload as it was
\* before the call.
C26_FailedCallLeavesCache ==
    [][(yCalls' = yCalls + 1 /\ yLast'.out # "ok") => stored_data' = stored_data]_vars

----------------------------------------------------------------------------
(* Properties of the consensus accessors *)

\* The entries with counts that the last call processed.
ConsensusEntries ==
    LET p == ratings_data[1]
        triples(l, b, h, s) == {<<l[k][b], l[k][h], l[k][s]>> : k \in 1..Len(l)}
    IN CASE tLast.op = "peers" ->
              {<<p.similarStocks[k].consensusData[1].nB,
                 p.similarStocks[k].consensusData[1].nH,
                 p.similarStocks[k].consensusData[1].nS>> : k \in 1..Len(p.similarStocks)}
         [] tLast.op = "recommendation_trend" ->
              triples(p.consensusOverTime, "buy", "hold", "sell")
                \cup triples(p.bestConsensusOverTime, "buy", "hold", "sell")
         [] tLast.op = "recommendation_trend_breakup" ->
              triples(p.consensuses, "nB", "nH", "nS")

\* The averages that the last call returned with the given counts: None for
\* an absent average.
ReturnedAverages(c) ==
    LET v == tLast.val[1]
        ofRecords(f) == {Some(f[x].average) : x \in {y \in DOMAIN f :
                            <<f[y].buy, f[y].hold, f[y].sell>> = c}}
        isLeaf(o) == FieldKey("average") \in DOMAIN o
    IN CASE tLast.op = "peers" ->
              {v[k].average : k \in {j \in 1..Len(v) : <<v[j].buy, v[j].hold, v[j].sell>> = c}}
         [] tLast.op = "recommendation_trend" ->
              ofRecords(v.all_analysts) \cup ofRecords(v.best_analysts)
         [] tLast.op = "recommendation_trend_breakup" ->
              {Some(v[i][FieldKey("average")].n) : i \in {j \in 1..Len(v) :
                    /\ isLeaf(v[j])
                    /\ <<v[j][FieldKey("buy")].n, v[j][FieldKey("hold")].n,
                         v[j][FieldKey("sell")].n>> = c}}

\* C25: peers, recommendation_trend and recommendation_trend_breakup, once
\* they hold the payload, never fail on an entry whose three counts are zero;
\* they return None as the average of such an entry and
\* (5*buy + 3*hold + sell) / (buy + hold + sell) rounded to 2 decimals as the
\* average of every other entry.
C25_AverageOrNone ==
    (/\ tLast.op \in {"peers", "recommendation_trend", "recommendation_trend_breakup"}
     /\ ~RequestRaised(tLast.out)) =>
        /\ tLast.out = "ok"
        /\ \A c \in ConsensusEntries :
              ReturnedAverages(c) \subseteq
                  {IF c[1] + c[2] + c[3] = 0 THEN None
                   ELSE Some(RoundDiv((5 * c[1] + 3 * c[2] + c[3]) * 100,
                                      c[1] + c[2] + c[3]))}

\* The (star rating, day) pairs of the entries of the cached payload.
InputPairs ==
    {<<ratings_data[1].consensuses[k].mStars, ratings_data[1].consensuses[k].d>> :
        k \in 1..Len(ratings_data[1].consensuses)}

\* The path of a pair in a result keyed by stars first, or by date first.
PairPath(pair, by_stars, timestamps) ==
    IF by_stars THEN <<StarsKey(pair[1]), date_key(timestamps, pair[2])>>
    ELSE <<date_key(timestamps, pair[2]), StarsKey(pair[1])>>

LeafFields == {FieldKey("buy"), FieldKey("hold"), FieldKey("sell"), FieldKey("average")}

\* objs is a two-level mapping with a leaf record at the path of every pair
\* and at no other place, and no two paths lead to the same object.
TwoLevel(objs, by_stars, timestamps) ==
    LET paths == {PairPath(pair, by_stars, timestamps) : pair \in InputPairs}
        inner(p) == objs[1][p[1]].ref
        leaf(p) == objs[inner(p)][p[2]].ref
    IN /\ DOMAIN objs[1] = {p[1] : p \in paths}
       /\ \A k1 \in DOMAIN objs[1] :
             /\ objs[1][k1].ref # 0
             /\ DOMAIN objs[objs[1][k1].ref] = {p[2] : p \in {q \in paths : q[1] = k1}}
       /\ \A p \in paths :
             /\ leaf(p) # 0
             /\ DOMAIN objs[leaf(p)] = LeafFields
       /\ \A p, q \in paths :
             /\ p # q => leaf(p) # leaf(q)
             /\ leaf(p) # inner(q)
             /\ p[1] # q[1] => inner(p) # inner(q)

\* The leaf record of a pair.
LeafOf(objs, pair, by_stars, timestamps) ==
    LET p == PairPath(pair, by_stars, timestamps)
    IN objs[objs[objs[1][p[1]].ref][p[2]].ref]

\* C24: the result of recommendation_trend_breakup is a two-level mapping
\* with one leaf record per distinct (star rating, date) pair of the input,
\* at result[stars][date] when sorted_by is "stars" and at
\* result[date][stars] otherwise; the result under the other order holds
\* equal leaf records at the transposed places; no leaf record object is
\* shared between two places.
C24_TwoLevelTransposed ==
    (tLast.op = "recommendation_trend_breakup" /\ tLast.out = "ok") =>
        LET by_stars == tLast.args[1] = "stars"
            timestamps == tLast.args[2]
            other == recommendation_trend_breakup(
                        [err |-> "none", data |-> ratings_data, requests |-> 0],
                        IF by_stars THEN "date" ELSE "stars", timestamps).val[1]
        IN /\ TwoLevel(tLast.val[1], by_stars, timestamps)
           /\ TwoLevel(other, ~by_stars, timestamps)
           /\ \A pair \in InputPairs :
                 LeafOf(tLast.val[1], pair, by_stars, timestamps)
                    = LeafOf(other, pair, ~by_stars, timestamps)

----------------------------------------------------------------------------
(* Properties of the subject's identifier *)

\* C28: the identifier of a constructed Filing13D has exactly 9 characters,
\* as has every candidate once its separators are removed, and it is the
\* first candidate in document order; a Filing13D whose document holds no
\* candidate is not constructed: the constructor raises and stores no
\* subject record.
C28_NineCharactersFirstCandidate ==
    /\ IsFiling13D =>
          LET found == secFile.document.cusips
          IN /\ Len(found) > 0
             /\ Len(subject.cusip) = 9
             /\ \A k \in 1..Len(found) : Len(NoSeparators(found[k])) = 9
             /\ subject.cusip = NoSeparators(found[1])
    /\ (/\ secPc \in {"done", "raised"}
        /\ secCls \in {"Filing13D", "Filing13G"}
        /\ Len(secFile.document.cusips) = 0) =>
          /\ secPc = "raised"
          /\ secErr # "none"
          /\ subject = EmptyDict

C28_Witness ==
    /\ IsFiling13D
    /\ Len(secFile.document.cusips) = 2
    /\ secFile.document.cusips[1] = <<"9", "9", "9", "9", "Z", "Z", " ", "9", "9", " ", "-", "9">>
    /\ secFile.document.cusips[2] = <<"1", "2", "3", "4", "A", "B", "1", "0", "9">>
    /\ subject.cusip = <<"9", "9", "9", "9", "Z", "Z", "9", "9", "9">>

\* C29: on a constructed Filing13D or Filing13G every read of subject_cusip
\* succeeds and returns the identifier stored in subject["cusip"].
C29_SubjectCusipReadable ==
    (IsFiling13D /\ secLast.op = "subject_cusip") =>
        /\ secLast.out = "ok"
        /\ secLast.val = Some(subject.cusip)

====
